---------------------------- MODULE Spec2Model ----------------------------
(***************************************************************************)
(* Gmail MCP server (bescka/fac_mcp): GmailService.getUnreadEmails and      *)
(* GmailService.createDraftReply, with the mail provider as environment.   *)
(*                                                                         *)
(* A JavaScript string is a sequence of characters; a character is a       *)
(* one-letter TLA+ string, except "U+00E9" which stands for the single      *)
(* character e-acute (two bytes in UTF-8).                                 *)
(***************************************************************************)
EXTENDS Integers, Sequences, FiniteSets, TLC

(***************************************************************************)
(* Bounds of the model.                                                    *)
(***************************************************************************)
NumMsgs == 3            \* messages in the mailbox of the call-level specifications
MaxCalls == 2           \* createDraftReply invocations in SpecDraft
MaxFromLen == 4         \* length of the From values in SpecCompose
MaxSubjectLen == 4      \* length of the Subject values in SpecCompose
MaxBodyLen == 3         \* length of the reply bodies in SpecCompose

(***************************************************************************)
(* Text: characters, bytes, UTF-8 and base64.                              *)
(***************************************************************************)
CR == "\r"
LF == "\n"
EAcute == "U+00E9"
Replacement == "U+FFFD"

\* The printable ASCII characters, code 32 (space) to 126 (tilde), in order
\* ("U+0060" stands for the grave accent).
Printable ==
  << " ", "!", "\"", "#", "$", "%", "&", "'", "(", ")", "*", "+", ",", "-", ".", "/",
     "0", "1", "2", "3", "4", "5", "6", "7", "8", "9", ":", ";", "<", "=", ">", "?",
     "@", "A", "B", "C", "D", "E", "F", "G", "H", "I", "J", "K", "L", "M", "N", "O",
     "P", "Q", "R", "S", "T", "U", "V", "W", "X", "Y", "Z", "[", "\\", "]", "^", "_",
     "U+0060", "a", "b", "c", "d", "e", "f", "g", "h", "i", "j", "k", "l", "m", "n", "o",
     "p", "q", "r", "s", "t", "u", "v", "w", "x", "y", "z", "{", "|", "}", "~" >>

AsciiChars == { Printable[i] : i \in 1..Len(Printable) } \cup {CR, LF}

\* The code of an ASCII character.
AsciiCode ==
  [ c \in AsciiChars |->
      IF c = CR THEN 13
      ELSE IF c = LF THEN 10
      ELSE 31 + (CHOOSE i \in 1..Len(Printable) : Printable[i] = c) ]

\* The ASCII character of a code below 128 (codes outside the table do not
\* occur in the texts of the model and read as the replacement character).
AsciiChar(b) ==
  IF b = 13 THEN CR
  ELSE IF b = 10 THEN LF
  ELSE IF b >= 32 /\ b <= 126 THEN Printable[b - 31]
  ELSE Replacement

\* Buffer.from(string): the UTF-8 bytes of one character.
Utf8Char(c) ==
  IF c = EAcute THEN <<195, 169>>
  ELSE IF c = Replacement THEN <<239, 191, 189>>
  ELSE <<AsciiCode[c]>>

\* The concatenation pieces[lo] \o ... \o pieces[hi].
RECURSIVE Concat(_, _, _)
Concat(pieces, lo, hi) ==
  IF lo > hi THEN <<>>
  ELSE IF lo = hi THEN pieces[lo]
  ELSE LET mid == (lo + hi) \div 2
       IN  Concat(pieces, lo, mid) \o Concat(pieces, mid + 1, hi)

\* Buffer.from(string): the UTF-8 bytes of a string.
Utf8Encode(s) == Concat([i \in 1..Len(s) |-> Utf8Char(s[i])], 1, Len(s))

\* Buffer.toString(): UTF-8 decoding.  A byte below 128 is an ASCII character,
\* 195 169 is e-acute, 239 191 189 is U+FFFD, and any other byte is ill-formed
\* and reads as U+FFFD.  The lead bytes 195 and 239 never continue a sequence,
\* so a byte is the tail of a sequence exactly when its lead precedes it.
Utf8Decode(bytes) ==
  LET n == Len(bytes)
      At(i) == IF i >= 1 /\ i <= n THEN bytes[i] ELSE -1
      IsTail(i) ==
        \/ At(i - 1) = 195 /\ At(i) = 169
        \/ At(i - 1) = 239 /\ At(i) = 191 /\ At(i + 1) = 189
        \/ At(i - 2) = 239 /\ At(i - 1) = 191 /\ At(i) = 189
      CharAt(i) ==
        IF IsTail(i) THEN <<>>
        ELSE IF At(i) < 128 THEN <<AsciiChar(At(i))>>
        ELSE IF At(i) = 195 /\ At(i + 1) = 169 THEN <<EAcute>>
        ELSE <<Replacement>>
  IN  Concat([i \in 1..n |-> CharAt(i)], 1, n)

\* The base64 alphabet of RFC 4648 section 4, value 0 at index 1.
Base64Alphabet ==
  << "A", "B", "C", "D", "E", "F", "G", "H", "I", "J", "K", "L", "M", "N", "O", "P",
     "Q", "R", "S", "T", "U", "V", "W", "X", "Y", "Z", "a", "b", "c", "d", "e", "f",
     "g", "h", "i", "j", "k", "l", "m", "n", "o", "p", "q", "r", "s", "t", "u", "v",
     "w", "x", "y", "z", "0", "1", "2", "3", "4", "5", "6", "7", "8", "9", "+", "/" >>

Base64Digit(v) == Base64Alphabet[v + 1]

Base64Value ==
  [ c \in { Base64Alphabet[i] : i \in 1..64 } |->
      (CHOOSE i \in 1..64 : Base64Alphabet[i] = c) - 1 ]

\* buffer.toString('base64'): every group of three bytes gives four digits of
\* six bits; a last group of one or two bytes is filled with zero bits and
\* padded with "=" to four characters.
Base64Encode(bytes) ==
  LET n == Len(bytes)
      At(i) == IF i <= n THEN bytes[i] ELSE 0
      DigitAt(k) ==
        LET g == 3 * ((k - 1) \div 4)
            p == (k - 1) % 4
        IN  IF p = 0 THEN Base64Digit(At(g + 1) \div 4)
            ELSE IF p = 1 THEN Base64Digit((At(g + 1) % 4) * 16 + At(g + 2) \div 16)
            ELSE IF p = 2 THEN
              IF g + 2 > n THEN "="
              ELSE Base64Digit((At(g + 2) % 16) * 4 + At(g + 3) \div 64)
            ELSE
              IF g + 3 > n THEN "=" ELSE Base64Digit(At(g + 3) % 64)
  IN  [k \in 1..(4 * ((n + 2) \div 3)) |-> DigitAt(k)]

\* Buffer.from(text, 'base64') on padded base64: every group of four digits
\* gives three bytes, a last group ending in "=" two bytes, in "==" one byte.
Base64Decode(text) ==
  LET m == Len(text)
      pad == IF m >= 2 /\ text[m - 1] = "=" THEN 2
             ELSE IF m >= 1 /\ text[m] = "=" THEN 1 ELSE 0
      Value(i) == IF text[i] = "=" THEN 0 ELSE Base64Value[text[i]]
      ByteAt(k) ==
        LET g == 4 * ((k - 1) \div 3)
            p == (k - 1) % 3
        IN  IF p = 0 THEN Value(g + 1) * 4 + Value(g + 2) \div 16
            ELSE IF p = 1 THEN (Value(g + 2) % 16) * 16 + Value(g + 3) \div 4
            ELSE (Value(g + 3) % 4) * 64 + Value(g + 4)
  IN  [k \in 1..(3 * (m \div 4) - pad) |-> ByteAt(k)]

\* string.replace(/x/g, y) for a one-character pattern.
ReplaceAll(s, x, y) == [ i \in 1..Len(s) |-> IF s[i] = x THEN y ELSE s[i] ]

\* string.replace(/=+$/, ''): drops the trailing run of "=".
RECURSIVE StripPadding(_)
StripPadding(s) ==
  IF s # <<>> /\ s[Len(s)] = "=" THEN StripPadding(SubSeq(s, 1, Len(s) - 1)) ELSE s

\* The base64url encoding of createDraftReply.
Base64UrlNoSlash(text) ==
  StripPadding(ReplaceAll(Base64Encode(Utf8Encode(text)), "+", "-"))

Base64Url(text) ==
  StripPadding(ReplaceAll(ReplaceAll(Base64Encode(Utf8Encode(text)), "+", "-"), "/", "_"))

\* '='.repeat(n)
PadChars(n) == [ i \in 1..n |-> "=" ]

\* The decoding the test suite applies to the submitted raw payload: back to
\* the base64 alphabet, padding restored, bytes read as UTF-8 text.
DecodeRaw(base64url) ==
  LET base64 == ReplaceAll(ReplaceAll(base64url, "-", "+"), "_", "/")
      padding == Len(base64) % 4
      paddedBase64 == base64 \o (IF padding # 0 THEN PadChars(4 - padding) ELSE <<>>)
  IN  Utf8Decode(Base64Decode(paddedBase64))

\* array.join(sep)
RECURSIVE Join(_, _)
Join(lines, sep) ==
  IF lines = <<>> THEN <<>>
  ELSE IF Len(lines) = 1 THEN lines[1]
  ELSE lines[1] \o sep \o Join(Tail(lines), sep)

\* All strings over an alphabet up to a length.
RECURSIVE StringsUpTo(_, _)
StringsUpTo(alphabet, n) ==
  IF n = 0 THEN { <<>> }
  ELSE LET shorter == StringsUpTo(alphabet, n - 1)
       IN  shorter \cup { Append(s, c) : s \in shorter, c \in alphabet }

(***************************************************************************)
(* The mail provider: messages, headers, errors.                           *)
(***************************************************************************)
MsgIds == 1..NumMsgs

\* An id that resolves to no message.
UnknownId == 0

\* Errors the provider rejects a request with.
NotFound == "Message not found"
ProviderError == "API Error"
Errors == {NotFound, ProviderError}

Header(name, value) == [name |-> name, value |-> value]

Min(S) == CHOOSE x \in S : \A y \in S : x <= y
Max(S) == CHOOSE x \in S : \A y \in S : x >= y

\* headers.find((h) => h.name === name)?.value || ''
HeaderValue(headers, name) ==
  LET found == { i \in 1..Len(headers) : headers[i].name = name }
  IN  IF found = {} THEN <<>> ELSE headers[Min(found)].value

\* The thread a message belongs to; messages may share a thread.
ThreadOf(id) == 10 + (id \div 2)

\* The messages of the mailbox in the call-level specifications: odd ids carry
\* From with a display name, Subject and Message-ID; even ids carry a bare From
\* address, a Subject that is already a reply and no Message-ID, and an empty
\* snippet; ids above 2 have no payload headers at all when divisible by 3.
CallMessage(id) ==
  [ id |-> id,
    threadId |-> ThreadOf(id),
    snippet |-> IF id % 2 = 1 THEN <<"h", "i">> ELSE <<>>,
    headers |->
      IF id % 3 = 0 THEN <<>>
      ELSE IF id % 2 = 1 THEN
        << Header("From", <<"A", " ", "<", "a", "@", "b", ">">>),
           Header("Subject", <<"x">>),
           Header("Message-ID", <<"<", "i", ">">>) >>
      ELSE
        << Header("Subject", <<"R", "e", ":", " ", "x">>),
           Header("From", <<"a", "@", "b">>) >> ]

CallMailbox == [ id \in MsgIds |-> CallMessage(id) ]

(***************************************************************************)
(* State.                                                                  *)
(***************************************************************************)
VARIABLES
  mailbox,      \* provider: message id -> message
  drafts,       \* provider: the drafts created, in order of creation
  guPc,         \* getUnreadEmails: "idle", "listing", "fetching", "done"
  guList,       \* getUnreadEmails: the answer of messages.list
  guMessages,   \* getUnreadEmails: messages (the listed ids)
  guFetch,      \* getUnreadEmails: state of each messages.get request
  guValues,     \* getUnreadEmails: the values Promise.all has collected
  guResult,     \* getUnreadEmails: what the caller receives
  guOrder,      \* getUnreadEmails: the settled requests, in order of completion
  cdCalls,      \* createDraftReply: the invocations, in order of their start
  toolCalls,    \* the tool calls the server has received, in order of arrival
  apCalls,      \* getSpacePictureOfTheDay: the invocations, in order of their start
  guard,        \* assertReplyBodyHasMainReplyBeforeSpaceEdition: its one application
  server,       \* registerTools: the flag read and the tools registered
  auth          \* the authorization script: the settings file and the script's position

guVars == <<guPc, guList, guMessages, guFetch, guValues, guResult, guOrder>>
vars == <<mailbox, drafts, guPc, guList, guMessages, guFetch, guValues, guResult, guOrder, cdCalls,
          toolCalls, apCalls, guard, server, auth>>
restVars == <<guard, server, auth>>

\* What a caller holds: nothing yet, a value, or an error.
Pending == [kind |-> "pending", value |-> <<>>, error |-> ""]
Fulfilled(v) == [kind |-> "fulfilled", value |-> v, error |-> ""]
Rejected(e) == [kind |-> "rejected", value |-> <<>>, error |-> e]

\* The slot of a values array that holds no value yet.
NoSummary ==
  [sender |-> <<>>, subject |-> <<>>, body |-> <<>>, emailId |-> -1, threadId |-> -1]

\* No answer of messages.list yet.
NoList == [status |-> "pending", defined |-> FALSE, messages |-> <<>>]

InitGu ==
  /\ guPc = "idle"
  /\ guList = NoList
  /\ guMessages = <<>>
  /\ guFetch = <<>>
  /\ guValues = <<>>
  /\ guResult = Pending
  /\ guOrder = <<>>

\* No tool call has arrived.
InitTools == toolCalls = <<>>

\* No getSpacePictureOfTheDay call has started.
InitAp == apCalls = <<>>

\* The guardrail is not applied, no server is started and the authorization
\* script is not run.
NoGuard == [pc |-> "idle", replyBody |-> <<>>, format |-> "plain", error |-> <<>>]
NoServer ==
  [started |-> FALSE, flag |-> <<>>, allTools |-> <<>>, toolHandlersByName |-> {}, listed |-> <<>>]
NoAuth == [pc |-> "idle", exists |-> FALSE, content |-> <<>>, before |-> <<>>, token |-> <<>>]

InitRest ==
  /\ guard = NoGuard
  /\ server = NoServer
  /\ auth = NoAuth

(***************************************************************************)
(* GmailService.getUnreadEmails                                            *)
(***************************************************************************)
\* The listings messages.list may answer with: the ids of any unread messages,
\* each once, in any order.
Listings ==
  { l \in UNION { [1..n -> MsgIds] : n \in 0..NumMsgs } :
      \A i, j \in 1..Len(l) : i # j => l[i] # l[j] }

\* data.messages of a list response: a listing, or undefined.
MessagesFields ==
  { [defined |-> TRUE, messages |-> l] : l \in Listings }
    \cup { [defined |-> FALSE, messages |-> <<>>] }

\* The callback of messages.map: the summary built from a fetched message.
Summary(msg) ==
  [ sender |-> HeaderValue(msg.headers, "From"),
    subject |-> HeaderValue(msg.headers, "Subject"),
    body |-> msg.snippet,
    emailId |-> msg.id,
    threadId |-> msg.threadId ]

\* Promise.all: a fulfilled promise stores its value at the index of the promise.
StoreInCompletionOrder(values, i, v) ==
  LET free == { k \in 1..Len(values) : values[k] = NoSummary }
  IN  [values EXCEPT ![Min(free)] = v]

PromiseAllStore(values, i, v) == [values EXCEPT ![i] = v]

\* Promise.all: rejects with the first rejection, fulfills once every promise
\* has fulfilled, and settles once.
PromiseAllSettled(promise, fetch, values, rejection) ==
  IF promise.kind # "pending" THEN promise
  ELSE IF \A i \in 1..Len(fetch) : fetch[i] # "pending" THEN Fulfilled(values)
  ELSE promise

PromiseAll(promise, fetch, values, rejection) ==
  IF promise.kind # "pending" THEN promise
  ELSE IF rejection # "" THEN Rejected(rejection)
  ELSE IF \A i \in 1..Len(fetch) : fetch[i] = "fulfilled" THEN Fulfilled(values)
  ELSE promise

\* An await without try/catch: the rejection of the awaited request leaves
\* the async function unchanged, as the rejection of its own promise.
AwaitRejectedWrapped(e) == Rejected("Request failed")

AwaitRejected(e) == Rejected(e)

\* const messages = listResponse.data.messages || [];
\* if (messages.length === 0) return [];
ListedWithoutDefault(field) ==
  IF ~field.defined
    THEN [messages |-> <<>>, result |-> Rejected("TypeError")]
    ELSE [ messages |-> field.messages,
           result |-> IF Len(field.messages) = 0 THEN Fulfilled(<<>>) ELSE Pending ]

Listed(field) ==
  LET messages == IF field.defined THEN field.messages ELSE <<>>
  IN  [ messages |-> messages,
        result |-> IF Len(messages) = 0 THEN Fulfilled(<<>>) ELSE Pending ]

\* getUnreadEmails is called: messages.list is requested.
GuCall ==
  /\ guPc = "idle"
  /\ guPc' = "listing"
  /\ UNCHANGED <<restVars, mailbox, drafts, guList, guMessages, guFetch, guValues, guResult,
                 guOrder, cdCalls, toolCalls, apCalls>>

\* messages.list rejects: the error leaves getUnreadEmails.
GuListFail ==
  /\ guPc = "listing"
  /\ \E e \in Errors :
       /\ guList' = [status |-> "rejected", defined |-> FALSE, messages |-> <<>>]
       /\ guResult' = AwaitRejected(e)
       /\ guOrder' = <<[index |-> 0, error |-> e]>>
  /\ guPc' = "done"
  /\ UNCHANGED <<restVars, mailbox, drafts, guMessages, guFetch, guValues, cdCalls, toolCalls, apCalls>>

\* messages.list answers; `field` is data.messages.  No message: [] is returned
\* and nothing is requested.  Otherwise messages.map requests every listed
\* message at once, in listing order, and Promise.all awaits the requests.
GuListOk ==
  /\ guPc = "listing"
  /\ \E field \in MessagesFields :
       LET messages == Listed(field).messages
       IN  /\ guList' = [status |-> "fulfilled", defined |-> field.defined,
                         messages |-> field.messages]
           /\ guMessages' = messages
           /\ guResult' = Listed(field).result
           /\ IF guResult'.kind # "pending"
                THEN /\ guPc' = "done"
                     /\ UNCHANGED <<guFetch, guValues>>
                ELSE /\ guPc' = "fetching"
                     /\ guFetch' = [i \in 1..Len(messages) |-> "pending"]
                     /\ guValues' = [i \in 1..Len(messages) |-> NoSummary]
  /\ UNCHANGED <<restVars, mailbox, drafts, guOrder, cdCalls, toolCalls, apCalls>>

\* The messages.get of the i-th listed message answers.
GuFetchOk(i) ==
  /\ guPc \in {"fetching", "done"}
  /\ i \in 1..Len(guFetch)
  /\ guFetch[i] = "pending"
  /\ guFetch' = [guFetch EXCEPT ![i] = "fulfilled"]
  /\ guValues' = PromiseAllStore(guValues, i, Summary(mailbox[guMessages[i]]))
  /\ guOrder' = Append(guOrder, [index |-> i, error |-> ""])
  /\ guResult' = PromiseAll(guResult, guFetch', guValues', "")
  /\ guPc' = IF guResult'.kind = "pending" THEN "fetching" ELSE "done"
  /\ UNCHANGED <<restVars, mailbox, drafts, guList, guMessages, cdCalls, toolCalls, apCalls>>

\* The messages.get of the i-th listed message rejects.
GuFetchFail(i) ==
  /\ guPc \in {"fetching", "done"}
  /\ i \in 1..Len(guFetch)
  /\ guFetch[i] = "pending"
  /\ guFetch' = [guFetch EXCEPT ![i] = "rejected"]
  /\ \E e \in Errors :
       /\ guOrder' = Append(guOrder, [index |-> i, error |-> e])
       /\ guResult' = PromiseAll(guResult, guFetch', guValues, e)
  /\ guPc' = IF guResult'.kind = "pending" THEN "fetching" ELSE "done"
  /\ UNCHANGED <<restVars, mailbox, drafts, guList, guMessages, guValues, cdCalls, toolCalls, apCalls>>

InitUnread ==
  /\ mailbox = CallMailbox
  /\ drafts = <<>>
  /\ cdCalls = <<>>
  /\ InitGu
  /\ InitTools
  /\ InitAp
  /\ InitRest

NextUnread ==
  \/ GuCall
  \/ GuListFail
  \/ GuListOk
  \/ \E i \in 1..NumMsgs : GuFetchOk(i)
  \/ \E i \in 1..NumMsgs : GuFetchFail(i)

SpecUnread == InitUnread /\ [][NextUnread]_vars

(***************************************************************************)
(* GmailService.createDraftReply: the composition of the reply.            *)
(***************************************************************************)
CRLF == <<CR, LF>>
RePrefix == <<"R", "e", ":", " ">>
ToLabel == <<"T", "o", ":", " ">>
SubjectLabel == <<"S", "u", "b", "j", "e", "c", "t", ":", " ">>
InReplyToLabel == <<"I", "n", "-", "R", "e", "p", "l", "y", "-", "T", "o", ":", " ">>
ReferencesLabel == <<"R", "e", "f", "e", "r", "e", "n", "c", "e", "s", ":", " ">>
ContentTypeLine ==
  << "C", "o", "n", "t", "e", "n", "t", "-", "T", "y", "p", "e", ":", " ",
     "t", "e", "x", "t", "/", "p", "l", "a", "i", "n", ";", " ",
     "c", "h", "a", "r", "s", "e", "t", "=", "u", "t", "f", "-", "8" >>

\* string.startsWith(prefix)
StartsWith(s, prefix) ==
  /\ Len(s) >= Len(prefix)
  /\ SubSeq(s, 1, Len(prefix)) = prefix

\* string.includes(c) for a one-character c
Includes(s, c) == \E i \in 1..Len(s) : s[i] = c

\* The characters the `.` of a regular expression does not match.
LineTerminators == {CR, LF}

\* subjectHeader.startsWith('Re: ') ? subjectHeader : `Re: ${subjectHeader}`
AlwaysPrefixed(subjectHeader) == RePrefix \o subjectHeader

ReplySubject(subjectHeader) ==
  IF StartsWith(subjectHeader, RePrefix) THEN subjectHeader
  ELSE RePrefix \o subjectHeader

\* fromHeader.match(/<(.+)>/)?.[1]: the match starts at the leftmost "<" from
\* which a match exists; (.+) is greedy, so it runs to the last ">" that no
\* line terminator separates from that "<", and holds at least one character.
\* <<>> stands for "no match" (a capture is never empty).
AngleCapture(fromHeader) ==
  LET Closes(i) ==
        { j \in (i + 2)..Len(fromHeader) :
            /\ fromHeader[j] = ">"
            /\ \A k \in (i + 1)..(j - 1) : fromHeader[k] \notin LineTerminators }
      opens == { i \in 1..Len(fromHeader) : fromHeader[i] = "<" /\ Closes(i) # {} }
  IN  IF opens = {} THEN <<>>
      ELSE SubSeq(fromHeader, Min(opens) + 1, Max(Closes(Min(opens))) - 1)

\* fromHeader.includes('<') ? fromHeader.match(/<(.+)>/)?.[1] || fromHeader
\*                          : fromHeader
ToEmail(fromHeader) ==
  IF Includes(fromHeader, "<")
    THEN IF AngleCapture(fromHeader) # <<>> THEN AngleCapture(fromHeader)
         ELSE fromHeader
    ELSE fromHeader

\* emailLines, as pushed by createDraftReply for the fetched message `msg`.
EmailLinesReferencesFirst(msg, replyBody) ==
  LET messageIdHeader == HeaderValue(msg.headers, "Message-ID")
  IN  << ToLabel \o ToEmail(HeaderValue(msg.headers, "From")),
         SubjectLabel \o ReplySubject(HeaderValue(msg.headers, "Subject")) >>
      \o (IF messageIdHeader # <<>>
            THEN << ReferencesLabel \o messageIdHeader,
                    InReplyToLabel \o messageIdHeader >>
            ELSE <<>>)
      \o << ContentTypeLine, <<>>, replyBody >>

EmailLinesAlwaysThreaded(msg, replyBody) ==
  LET messageIdHeader == HeaderValue(msg.headers, "Message-ID")
  IN  << ToLabel \o ToEmail(HeaderValue(msg.headers, "From")),
         SubjectLabel \o ReplySubject(HeaderValue(msg.headers, "Subject")),
         InReplyToLabel \o messageIdHeader,
         ReferencesLabel \o messageIdHeader,
         ContentTypeLine, <<>>, replyBody >>

EmailLines(msg, replyBody) ==
  LET fromHeader == HeaderValue(msg.headers, "From")
      subjectHeader == HeaderValue(msg.headers, "Subject")
      messageIdHeader == HeaderValue(msg.headers, "Message-ID")
      replySubject == ReplySubject(subjectHeader)
      toEmail == ToEmail(fromHeader)
  IN  << ToLabel \o toEmail, SubjectLabel \o replySubject >>
      \o (IF messageIdHeader # <<>>
            THEN << InReplyToLabel \o messageIdHeader,
                    ReferencesLabel \o messageIdHeader >>
            ELSE <<>>)
      \o << ContentTypeLine, <<>>, replyBody >>

\* emailLines.join('\r\n')
RawEmail(emailLines) == Join(emailLines, CRLF)

\* Buffer.from(rawEmail).toString('base64') with "+" -> "-", "/" -> "_" and the
\* padding removed.
EncodedEmail(rawEmail) == Base64Url(rawEmail)

(***************************************************************************)
(* GmailService.createDraftReply: the invocations.                         *)
(***************************************************************************)
NoRequest == [threadId |-> -1, raw |-> <<>>]
NoDraft == [draftId |-> -1, threadId |-> -1]

InitCd ==
  /\ drafts = <<>>
  /\ cdCalls = <<>>

\* The response of drafts.create: the id the provider assigned and the thread
\* of the stored message, which the provider reports as the requested thread
\* or, when it could not attach the draft to it, as a thread of its own.
ProviderThread == 99

DraftResponses(draftId, request) ==
  { [id |-> draftId, message |-> [threadId |-> t]] : t \in {request.threadId, ProviderThread} }

\* return { draftId: draftResponse.data.id!, threadId }
DraftReplyFromResponse(draftResponse, threadId) ==
  [draftId |-> draftResponse.id, threadId |-> draftResponse.message.threadId]

DraftReply(draftResponse, threadId) ==
  [draftId |-> draftResponse.id, threadId |-> threadId]

\* gmail.users.drafts.create({message: {threadId, raw}}): every request stores
\* a new draft under the id the provider assigns; equal requests are not merged.
DraftsCreateOnce(stored, draftId, request) ==
  IF \E i \in 1..Len(stored) :
       stored[i].threadId = request.threadId /\ stored[i].raw = request.raw
    THEN stored
    ELSE Append(stored, [id |-> draftId, threadId |-> request.threadId, raw |-> request.raw])

DraftsCreate(stored, draftId, request) ==
  Append(stored, [id |-> draftId, threadId |-> request.threadId, raw |-> request.raw])

\* The record of a createDraftReply invocation that has just requested the
\* original message.
NewCdCall(emailId, replyBody) ==
  [ emailId |-> emailId, replyBody |-> replyBody, pc |-> "fetching",
    gets |-> 1, creates |-> 0, fetched |-> "pending", created |-> "none",
    providerError |-> "",
    emailLines |-> <<>>, rawEmail |-> <<>>, request |-> NoRequest,
    result |-> [kind |-> "pending", value |-> NoDraft, error |-> ""] ]

\* createDraftReply(emailId, replyBody) is called: messages.get is requested.
CdCall(maxCalls, emailIds, replyBodies) ==
  /\ Len(cdCalls) < maxCalls
  /\ \E emailId \in emailIds, replyBody \in replyBodies :
       cdCalls' = Append(cdCalls, NewCdCall(emailId, replyBody))
  /\ UNCHANGED <<restVars, mailbox, drafts, guVars, toolCalls, apCalls>>

\* messages.get rejects (always so for an id that resolves to no message):
\* the error leaves createDraftReply, nothing else is requested.
CdFetchFail(k) ==
  /\ k \in 1..Len(cdCalls)
  /\ cdCalls[k].pc = "fetching"
  /\ \E e \in (IF cdCalls[k].emailId \in DOMAIN mailbox THEN Errors ELSE {NotFound}) :
       cdCalls' = [cdCalls EXCEPT
         ![k].pc = "done", ![k].fetched = "rejected", ![k].providerError = e,
         ![k].result = [AwaitRejected(e) EXCEPT !.value = NoDraft]]
  /\ UNCHANGED <<restVars, mailbox, drafts, guVars, toolCalls, apCalls>>

\* messages.get answers with the original message: the reply is composed,
\* encoded and submitted with the thread of the original.
CdFetchOk(k) ==
  /\ k \in 1..Len(cdCalls)
  /\ cdCalls[k].pc = "fetching"
  /\ cdCalls[k].emailId \in DOMAIN mailbox
  /\ LET msg == mailbox[cdCalls[k].emailId]
         emailLines == EmailLines(msg, cdCalls[k].replyBody)
         rawEmail == RawEmail(emailLines)
     IN  cdCalls' = [cdCalls EXCEPT
           ![k].pc = "creating",
           ![k].fetched = "fulfilled",
           ![k].created = "pending",
           ![k].emailLines = emailLines,
           ![k].rawEmail = rawEmail,
           ![k].request = [threadId |-> msg.threadId, raw |-> EncodedEmail(rawEmail)],
           ![k].creates = @ + 1]
  /\ UNCHANGED <<restVars, mailbox, drafts, guVars, toolCalls, apCalls>>

\* drafts.create answers: the provider has stored the draft and assigned its id.
CdCreateOk(k) ==
  /\ k \in 1..Len(cdCalls)
  /\ cdCalls[k].pc = "creating"
  /\ LET draftId == 100 + Len(drafts) + 1
         threadId == cdCalls[k].request.threadId
     IN  /\ drafts' = DraftsCreate(drafts, draftId, cdCalls[k].request)
         /\ \E draftResponse \in DraftResponses(draftId, cdCalls[k].request) :
              cdCalls' = [cdCalls EXCEPT
                ![k].pc = "done", ![k].created = "fulfilled",
                ![k].result = [ kind |-> "fulfilled", error |-> "",
                                value |-> DraftReply(draftResponse, threadId) ]]
  /\ UNCHANGED <<restVars, mailbox, guVars, toolCalls, apCalls>>

\* drafts.create rejects: the error leaves createDraftReply, no draft is stored.
CdCreateFail(k) ==
  /\ k \in 1..Len(cdCalls)
  /\ cdCalls[k].pc = "creating"
  /\ \E e \in Errors :
       cdCalls' = [cdCalls EXCEPT
         ![k].pc = "done", ![k].created = "rejected", ![k].providerError = e,
         ![k].result = [AwaitRejected(e) EXCEPT !.value = NoDraft]]
  /\ UNCHANGED <<restVars, mailbox, drafts, guVars, toolCalls, apCalls>>

\* The reply bodies of the call-level specification.
CallBodies == { <<"o", "k">>, <<"h", "i", CR, LF, CR, LF, "x">> }

InitDraft ==
  /\ mailbox = CallMailbox
  /\ InitCd
  /\ InitGu
  /\ InitTools
  /\ InitAp
  /\ InitRest

NextDraft ==
  \/ CdCall(MaxCalls, MsgIds \cup {UnknownId}, CallBodies)
  \/ \E k \in 1..MaxCalls : CdFetchFail(k)
  \/ \E k \in 1..MaxCalls : CdFetchOk(k)
  \/ \E k \in 1..MaxCalls : CdCreateOk(k)
  \/ \E k \in 1..MaxCalls : CdCreateFail(k)

SpecDraft == InitDraft /\ [][NextDraft]_vars

(***************************************************************************)
(* The composition over bounded header values and reply bodies: one        *)
(* createDraftReply call on message 1, whose headers vary.                 *)
(***************************************************************************)
FromAlphabet == {"A", "<", ">", "a"}
SubjectAlphabet == {"R", "r", "e", ":", " "}
BodyAlphabet == {"a", CR, LF, ">", "?", EAcute}

\* A header that may be missing from payload.headers.
OptionalHeader(name, values) == { <<>> } \cup { <<Header(name, v)>> : v \in values }

MessageWith(headers) ==
  [id |-> 1, threadId |-> ThreadOf(1), snippet |-> <<>>, headers |-> headers]

\* Every combination of a missing, bare or named From, a missing, fresh or
\* replied Subject and a missing or present Message-ID.
BaseMessages ==
  { MessageWith(f \o s \o m) :
      f \in OptionalHeader("From", { <<"a">>, <<"A", " ", "<", "a", ">">> }),
      s \in OptionalHeader("Subject", { <<"x">>, <<"R", "e", ":", " ", "x">> }),
      m \in OptionalHeader("Message-ID", { <<"<", "i", ">">> }) }

FromMessages ==
  { MessageWith(<< Header("From", f), Header("Subject", <<"x">>),
                   Header("Message-ID", <<"<", "i", ">">>) >>) :
      f \in StringsUpTo(FromAlphabet, MaxFromLen) }

\* The subjects: every string over the alphabet, alone and followed by "x".
SubjectMessages ==
  { MessageWith(<< Header("Subject", s \o t), Header("From", <<"a">>) >>) :
      s \in StringsUpTo(SubjectAlphabet, MaxSubjectLen), t \in { <<>>, <<"x">> } }

\* The original messages every reply body is tried on: one without headers
\* and one with From, Subject and Message-ID.
BodyMessages ==
  { MessageWith(<<>>),
    MessageWith(<< Header("From", <<"A", " ", "<", "a", ">">>),
                   Header("Subject", <<"x">>),
                   Header("Message-ID", <<"<", "i", ">">>) >>) }

\* The reply bodies tried on an original message: every body on the messages
\* of BodyMessages, one body on the others.
ComposeBodies(msg) ==
  IF msg \in BodyMessages THEN StringsUpTo(BodyAlphabet, MaxBodyLen)
  ELSE { <<"o", "k">> }

InitCompose ==
  /\ \E msg \in BaseMessages \cup FromMessages \cup SubjectMessages :
       mailbox = [id \in MsgIds |-> IF id = 1 THEN msg ELSE CallMessage(id)]
  /\ InitCd
  /\ InitGu
  /\ InitTools
  /\ InitAp
  /\ InitRest

NextCompose ==
  \/ CdCall(1, {1}, ComposeBodies(mailbox[1]))
  \/ CdFetchFail(1)
  \/ CdFetchOk(1)
  \/ CdCreateOk(1)
  \/ CdCreateFail(1)

SpecCompose == InitCompose /\ [][NextCompose]_vars

(***************************************************************************)
(* The create_draft_reply tool (registerTools) and the call handler.       *)
(***************************************************************************)
\* A property of an arguments object: missing, or present with a value.
None == <<>>
Some(v) == <<v>>

\* The empty string, given as emailId.
EmptyId == -1

\* request.params.arguments was not given at all.
NoArgs == [defined |-> FALSE, emailId |-> None, replyBody |-> None, format |-> None]

Args(emailId, replyBody, format) ==
  [defined |-> TRUE, emailId |-> emailId, replyBody |-> replyBody, format |-> format]

\* (args ?? {}): the properties of the arguments object, none when it is undefined.
OrEmpty(args) == IF args.defined THEN args ELSE Args(None, None, None)

\* A property counts as absent only when it is missing.
FalsyWhenMissing(property, empty) == property = None

\* !emailId || !replyBody: a property is falsy when missing or the empty string.
Falsy(property, empty) == property = None \/ property = Some(empty)

\* inputSchema of the create_draft_reply definition.
CreateDraftReplySchema ==
  [properties |-> {"emailId", "replyBody"}, required |-> {"emailId", "replyBody"}]

RequiredError == "emailId and replyBody are required"
CreatedMessage == "Draft reply created successfully"

\* createMCPResponse(data, isError): one text content holding the JSON text of
\* data (kept as data here), flagged isError only for an error.
CreateMCPResponse(data, isError) ==
  IF isError THEN [content |-> <<[type |-> "text", data |-> data]>>, isError |-> TRUE]
  ELSE [content |-> <<[type |-> "text", data |-> data]>>]

NoResponse == [content |-> <<>>]

\* A create_draft_reply call arrives: the handler takes emailId and replyBody
\* out of the arguments and nothing else; without both it throws, which the
\* call handler turns into an error response; with both it calls
\* createDraftReply(emailId, replyBody) and awaits it.
CallCreateDraftReply(maxCalls, argsSet) ==
  /\ Len(toolCalls) < maxCalls
  /\ \E args \in argsSet :
       LET a == OrEmpty(args)
       IN  IF Falsy(a.emailId, EmptyId) \/ Falsy(a.replyBody, <<>>)
             THEN /\ toolCalls' = Append(toolCalls,
                       [ name |-> "create_draft_reply", args |-> args, pc |-> "returned",
                         handler |-> "own", cd |-> 0, ap |-> 0,
                         response |-> CreateMCPResponse([error |-> RequiredError], TRUE) ])
                  /\ UNCHANGED cdCalls
             ELSE /\ cdCalls' = Append(cdCalls, NewCdCall(a.emailId[1], a.replyBody[1]))
                  /\ toolCalls' = Append(toolCalls,
                       [ name |-> "create_draft_reply", args |-> args, pc |-> "awaiting",
                         handler |-> "own", cd |-> Len(cdCalls) + 1, ap |-> 0,
                         response |-> NoResponse ])
  /\ UNCHANGED <<restVars, mailbox, drafts, guVars, apCalls>>

\* createDraftReply has settled: the handler returns the success object, or the
\* catch of the call handler returns the error message, as the response.
ToolReturn(t) ==
  /\ t \in 1..Len(toolCalls)
  /\ toolCalls[t].pc = "awaiting"
  /\ toolCalls[t].name = "create_draft_reply"
  /\ cdCalls[toolCalls[t].cd].pc = "done"
  /\ LET result == cdCalls[toolCalls[t].cd].result
     IN  toolCalls' = [toolCalls EXCEPT
           ![t].pc = "returned",
           ![t].response =
             IF result.kind = "fulfilled"
               THEN CreateMCPResponse(
                      [ success |-> TRUE, draftId |-> result.value.draftId,
                        threadId |-> result.value.threadId, message |-> CreatedMessage ],
                      FALSE)
               ELSE CreateMCPResponse([error |-> result.error], TRUE)]
  /\ UNCHANGED <<restVars, mailbox, drafts, guVars, cdCalls, apCalls>>

\* The arguments of the create_draft_reply calls: every combination of a
\* missing, empty, unknown or known emailId, a missing, empty, plain or HTML
\* replyBody and a missing, "plain" or "html" format, and no arguments at all.
HtmlBody == <<"<", "p", ">", "o", "k", "<", "/", "p", ">">>

ToolArgs ==
  { Args(e, b, f) :
      e \in {None} \cup { Some(id) : id \in {EmptyId, UnknownId} \cup MsgIds },
      b \in {None, Some(<<>>), Some(<<"o", "k">>), Some(HtmlBody)},
      f \in {None, Some("plain"), Some("html")} }
    \cup {NoArgs}

InitTool == InitDraft

NextTool ==
  \/ CallCreateDraftReply(1, ToolArgs)
  \/ ToolReturn(1)
  \/ CdFetchFail(1)
  \/ CdFetchOk(1)
  \/ CdCreateOk(1)
  \/ CdCreateFail(1)

SpecTool == InitTool /\ [][NextTool]_vars

(***************************************************************************)
(* APODService: numbers and dates.                                         *)
(***************************************************************************)
EmDash == "U+2014"
Ellipsis == "U+2026"
Tab == "\t"

\* \d of a regular expression.
DigitChars == {"0", "1", "2", "3", "4", "5", "6", "7", "8", "9"}
DigitValue(c) == AsciiCode[c] - 48
DigitChar(n) == AsciiChar(48 + n)

\* The number a run of decimal digits denotes.
RECURSIVE DecimalValue(_)
DecimalValue(digits) ==
  IF digits = <<>> THEN 0
  ELSE 10 * DecimalValue(SubSeq(digits, 1, Len(digits) - 1)) + DigitValue(digits[Len(digits)])

\* String(n) for an integer n >= 0.
RECURSIVE NumberToString(_)
NumberToString(n) ==
  IF n < 10 THEN <<DigitChar(n)>>
  ELSE NumberToString(n \div 10) \o <<DigitChar(n % 10)>>

\* String(n).padStart(2, '0')
PadStart2(n) == IF n < 10 THEN <<"0">> \o NumberToString(n) ELSE NumberToString(n)

\* A Date at midnight UTC is the number of its day, day 0 being 1970-01-01
\* (every Date of the service is built from a date at T00:00:00Z and moved by
\* whole days).  The functions are those of ECMAScript: DayFromYear,
\* YearFromTime, InLeapYear, MonthFromTime, DateFromTime, MakeDay.
DayFromYear(y) ==
  365 * (y - 1970) + ((y - 1969) \div 4) - ((y - 1901) \div 100) + ((y - 1601) \div 400)

InLeapYear(y) == DayFromYear(y + 1) - DayFromYear(y) = 366

YearFromDay(t) ==
  CHOOSE y \in (1969 + (t \div 366))..(1971 + (t \div 365)) :
    DayFromYear(y) <= t /\ t < DayFromYear(y + 1)

\* The day within the year on which each month starts (month 0 is January).
MonthStart(y) ==
  LET l == IF InLeapYear(y) THEN 1 ELSE 0
  IN  << 0, 31, 59 + l, 90 + l, 120 + l, 151 + l, 181 + l, 212 + l, 243 + l, 273 + l,
         304 + l, 334 + l >>

MonthFromDay(t) ==
  LET y == YearFromDay(t)
      dayWithinYear == t - DayFromYear(y)
  IN  Max({ m \in 0..11 : MonthStart(y)[m + 1] <= dayWithinYear })

DateFromDay(t) ==
  LET y == YearFromDay(t)
  IN  t - DayFromYear(y) - MonthStart(y)[MonthFromDay(t) + 1] + 1

\* MakeDay(year, month, date) for a month in 0..11; a date outside the month
\* runs over into the neighbouring months.
MakeDay(year, month, date) == DayFromYear(year) + MonthStart(year)[month + 1] + date - 1

\* /^\d{4}-\d{2}-\d{2}$/.test(date)
DateRegexTest(date) ==
  /\ Len(date) = 10
  /\ \A i \in {1, 2, 3, 4, 6, 7, 9, 10} : date[i] \in DigitChars
  /\ date[5] = "-"
  /\ date[8] = "-"

\* new Date(`${date}T00:00:00Z`) for a date that matches the pattern: the
\* runtime (Node.js) reads a month 01..12 and a day 01..31 of any month, a day
\* beyond the end of the month running over into the next month, and gives
\* the invalid Date (None) for every other month or day.
ParseDateUTC(date) ==
  LET year == DecimalValue(SubSeq(date, 1, 4))
      month == DecimalValue(SubSeq(date, 6, 7))
      day == DecimalValue(SubSeq(date, 9, 10))
  IN  IF month \in 1..12 /\ day \in 1..31
        THEN Some(MakeDay(year, month - 1, day))
        ELSE None

\* isValidDateFormat(date)
IsValidDateFormat(date) ==
  IF ~DateRegexTest(date) THEN FALSE
  ELSE ParseDateUTC(date) # None

\* formatDateUTC(d)
FormatDateUTC(d) ==
  NumberToString(YearFromDay(d)) \o <<"-">> \o PadStart2(MonthFromDay(d) + 1)
    \o <<"-">> \o PadStart2(DateFromDay(d))

\* addDaysUTC(d, days): setUTCDate(getUTCDate() + days)
AddDaysUTC(d, days) == MakeDay(YearFromDay(d), MonthFromDay(d), DateFromDay(d) + days)

\* A JavaScript number: NaN, an infinity, or a finite number, held in halves
\* (Finite(5) is 2.5); undefined and null are the values ?? replaces.
Finite(halves) == [kind |-> "finite", halves |-> halves]
NotFinite(kind) == [kind |-> kind, halves |-> 0]
Undefined == NotFinite("undefined")
Null == NotFinite("null")
NaN == NotFinite("NaN")
PlusInfinity == NotFinite("Infinity")
MinusInfinity == NotFinite("-Infinity")

\* value ?? fallback
Nullish(value, fallback) ==
  IF value.kind \in {"undefined", "null"} THEN fallback ELSE value

\* clampInt(value, min, max), with integers min and max
ClampIntDefaulting(value, min, max) ==
  IF value.kind # "finite" THEN 10
  ELSE LET v == value.halves \div 2
       IN  IF v < min THEN min ELSE IF v > max THEN max ELSE v

ClampInt(value, min, max) ==
  IF value.kind # "finite" THEN min
  ELSE LET v == value.halves \div 2
       IN  IF v < min THEN min ELSE IF v > max THEN max ELSE v

DefaultDaysBack == 10
LeastDaysBack == 0
MostDaysBack == 30

\* this.clampInt(options?.maxDaysBack ?? 10, 0, 30)
EffectiveMaxDaysBack(maxDaysBack) ==
  ClampInt(Nullish(maxDaysBack, Finite(2 * DefaultDaysBack)), LeastDaysBack, MostDaysBack)

(***************************************************************************)
(* APODService: texts, the fetch and the result.                           *)
(***************************************************************************)
\* \s of a regular expression, and the characters trim removes.
White == {" ", Tab, CR, LF}

\* string.slice(start, end) for 0 <= start <= end
Slice(s, start, end) ==
  LET last == IF end < Len(s) THEN end ELSE Len(s)
  IN  IF start >= last THEN <<>> ELSE SubSeq(s, start + 1, last)

\* string.trimEnd()
TrimEnd(s) ==
  SubSeq(s, 1, Len(s) - Cardinality({ i \in 1..Len(s) : \A j \in i..Len(s) : s[j] \in White }))

\* string.trim()
Trim(s) ==
  LET leading == Cardinality({ i \in 1..Len(s) : \A j \in 1..i : s[j] \in White })
      t == TrimEnd(s)
  IN  IF leading >= Len(t) THEN <<>> ELSE SubSeq(t, leading + 1, Len(t))

\* string.includes(part)
Contains(s, part) ==
  \E i \in 0..(Len(s) - Len(part)) : \A j \in 1..Len(part) : s[i + j] = part[j]

\* text.replace(/\s+/g, ' ').trim(): every run of whitespace becomes one space,
\* and the spaces at both ends go.
NormalizeWhitespace(text) ==
  LET n == Len(text)
      IsWhite(i) == text[i] \in White
      Leading(i) == \A j \in 1..i : IsWhite(j)
      Trailing(i) == \A j \in i..n : IsWhite(j)
      Piece(i) ==
        IF ~IsWhite(i) THEN <<text[i]>>
        ELSE IF i > 1 /\ IsWhite(i - 1) THEN <<>>
        ELSE IF Leading(i) \/ Trailing(i) THEN <<>>
        ELSE <<" ">>
  IN  Concat([i \in 1..n |-> Piece(i)], 1, n)

\* truncate(text, maxLen)
TruncateAtMaxLen(text, maxLen) ==
  IF Len(text) <= maxLen THEN text
  ELSE TrimEnd(Slice(text, 0, maxLen)) \o <<Ellipsis>>

Truncate(text, maxLen) ==
  IF Len(text) <= maxLen THEN text
  ELSE TrimEnd(Slice(text, 0, IF maxLen - 1 > 0 THEN maxLen - 1 ELSE 0)) \o <<Ellipsis>>

ExplanationMaxLen == 420

InvalidDateError ==
  << "I", "n", "v", "a", "l", "i", "d", " ", "d", "a", "t", "e", " ", "f", "o", "r", "m",
     "a", "t", ".", " ", "U", "s", "e", " ", "Y", "Y", "Y", "Y", "-", "M", "M", "-",
     "D", "D", "." >>

ShapeError ==
  << "N", "A", "S", "A", " ", "A", "P", "I", " ", "r", "e", "t", "u", "r", "n", "e", "d",
     " ", "a", "n", " ", "u", "n", "e", "x", "p", "e", "c", "t", "e", "d", " ", "r",
     "e", "s", "p", "o", "n", "s", "e", " ", "s", "h", "a", "p", "e", "." >>

\* The message of the error fetch rejects with when the request does not go through.
FetchFailed ==
  << "f", "e", "t", "c", "h", " ", "f", "a", "i", "l", "e", "d" >>

Banner ==
  << "D", "i", "d", " ", "y", "o", "u", " ", "k", "n", "o", "w", "?", " ", "S", "p", "a",
     "c", "e", " ", "E", "d", "i", "t", "i", "o", "n", "!" >>

ApiReference ==
  << "A", "P", "I", ":", " ", "h", "t", "t", "p", "s", ":", "/", "/", "a", "p", "i", ".",
     "n", "a", "s", "a", ".", "g", "o", "v", "/" >>

SourcePrefix ==
  << "S", "o", "u", "r", "c", "e", ":", " ", "N", "A", "S", "A", " ", "A", "s", "t", "r",
     "o", "n", "o", "m", "y", " ", "P", "i", "c", "t", "u", "r", "e", " ", "o", "f",
     " ", "t", "h", "e", " ", "D", "a", "y", " ", "(", "A", "P", "O", "D", ")", " ",
     "U+2014", " " >>

ApodPagePrefix ==
  << "h", "t", "t", "p", "s", ":", "/", "/", "a", "p", "o", "d", ".", "n", "a", "s", "a",
     ".", "g", "o", "v", "/", "a", "p", "o", "d", "/", "a", "p" >>

\* `NASA API error (${response.status}): ${errorText}`.trim()
HttpError(status, errorText) ==
  Trim(<< "N", "A", "S", "A", " ", "A", "P", "I", " ", "e", "r", "r", "o", "r", " ", "(" >> \o NumberToString(status)
         \o << ")", ":", " " >> \o errorText)

\* The answers to a request: fetch rejects (the request did not go through),
\* or resolves with a response that has a status, a text and a JSON body.  A
\* property of the body that is missing or the empty string is <<>>.
NoBody ==
  [ date |-> <<>>, title |-> <<>>, explanation |-> <<>>, media_type |-> <<>>, url |-> <<>>,
    hdurl |-> <<>>, copyright |-> <<>> ]

NetworkError(message) ==
  [kind |-> "rejected", message |-> message, status |-> 0, text |-> <<>>, json |-> NoBody]

HttpResponse(status, text, json) ==
  [kind |-> "response", message |-> <<>>, status |-> status, text |-> text, json |-> json]

\* A response whose body is no JSON: response.json() throws.
SyntaxErrorMessage ==
  << "U", "n", "e", "x", "p", "e", "c", "t", "e", "d", " ", "t", "o", "k", "e", "n", " ",
     "<", " ", "i", "n", " ", "J", "S", "O", "N", " ", "a", "t", " ", "p", "o", "s",
     "i", "t", "i", "o", "n", " ", "0" >>

Unparseable(status, text) ==
  [kind |-> "unparseable", message |-> SyntaxErrorMessage, status |-> status, text |-> text,
   json |-> NoBody]

\* The response counts as ok for the status 200 alone.
OkOnly200(response) == response.status = 200

\* response.ok
Ok(response) == response.status >= 200 /\ response.status <= 299

\* fetchApod(date), given the answer to its request: the body, or the error
\* thrown.
FetchApod(response) ==
  IF response.kind = "rejected"
    THEN [ok |-> FALSE, apod |-> NoBody, reason |-> response.message]
  ELSE IF ~Ok(response)
    THEN [ok |-> FALSE, apod |-> NoBody, reason |-> HttpError(response.status, response.text)]
  ELSE IF response.kind = "unparseable"
    THEN [ok |-> FALSE, apod |-> NoBody, reason |-> response.message]
  ELSE LET data == response.json
       IN  IF data.date = <<>> \/ data.title = <<>> \/ data.explanation = <<>> \/ data.url = <<>>
             THEN [ok |-> FALSE, apod |-> NoBody, reason |-> ShapeError]
             ELSE [ok |-> TRUE, apod |-> data, reason |-> <<>>]

\* apodPageUrlForDate(date)
ApodPageUrlForDate(date) ==
  ApodPagePrefix \o Slice(date, 2, 4) \o Slice(date, 5, 7) \o Slice(date, 8, 10)
    \o <<".", "h", "t", "m", "l">>

\* buildCreditsText(apod, apodPageUrl)
BuildCreditsText(apod, apodPageUrl) ==
  Join( << SourcePrefix \o apodPageUrl >>
          \o (IF apod.copyright # <<>>
                THEN << << "C", "r", "e", "d", "i", "t", ":", " " >> \o apod.copyright >>
                ELSE <<>>)
          \o << ApiReference >>,
        <<" ", "|", " ">> )

\* buildSpaceEditionBlock(apod, apodPageUrl, creditsText)
BuildSpaceEditionBlock(apod, apodPageUrl, creditsText) ==
  LET shortExplanation == Truncate(NormalizeWhitespace(apod.explanation), ExplanationMaxLen)
  IN  Join( << Banner,
               << "N", "A", "S", "A", " ", "A", "P", "O", "D", " ", "(" >> \o apod.date \o <<")", " ", EmDash, " ">> \o apod.title,
               <<>>,
               shortExplanation,
               <<>>,
               << "M", "e", "d", "i", "a", ":", " " >> \o apod.url >>
             \o (IF apod.hdurl # <<>> THEN << << "H", "D", ":", " " >> \o apod.hdurl >> ELSE <<>>)
             \o << << "M", "o", "r", "e", ":", " " >> \o apodPageUrl,
                   creditsText >>,
            <<LF>> )

\* toSpacePictureOfTheDay(apod, requestedDate)
ToSpacePictureDatedByBody(apod, requestedDate) ==
  LET apodPageUrl == ApodPageUrlForDate(apod.date)
      creditsText == BuildCreditsText(apod, apodPageUrl)
  IN  [ requestedDate |-> apod.date, dateUsed |-> apod.date, title |-> apod.title,
        explanation |-> apod.explanation, mediaType |-> apod.media_type,
        mediaUrl |-> apod.url, hdUrl |-> apod.hdurl, apodPageUrl |-> apodPageUrl,
        attribution |-> [copyright |-> apod.copyright], creditsText |-> creditsText,
        spaceEditionBlock |-> BuildSpaceEditionBlock(apod, apodPageUrl, creditsText) ]

ToSpacePictureOfTheDay(apod, requestedDate) ==
  LET apodPageUrl == ApodPageUrlForDate(apod.date)
      creditsText == BuildCreditsText(apod, apodPageUrl)
      spaceEditionBlock == BuildSpaceEditionBlock(apod, apodPageUrl, creditsText)
  IN  [ requestedDate |-> requestedDate,
        dateUsed |-> apod.date,
        title |-> apod.title,
        explanation |-> apod.explanation,
        mediaType |-> apod.media_type,
        mediaUrl |-> apod.url,
        hdUrl |-> apod.hdurl,
        apodPageUrl |-> apodPageUrl,
        attribution |-> [copyright |-> apod.copyright],
        creditsText |-> creditsText,
        spaceEditionBlock |-> spaceEditionBlock ]

\* The error thrown when every attempt has failed.
ExhaustedErrorOfFirst(failures, requestedDate) ==
  << "U", "n", "a", "b", "l", "e", " ", "t", "o", " ", "f", "e", "t", "c", "h", " ", "N",
       "A", "S", "A", " ", "A", "P", "O", "D", " ", "a", "f", "t", "e", "r", " ", "c",
       "h", "e", "c", "k", "i", "n", "g", " " >> \o NumberToString(Len(failures))
    \o << " ", "d", "a", "y", "(", "s", ")", " ", "b", "a", "c", "k", " ", "f", "r", "o", "m",
       " " >> \o requestedDate
    \o << ".", " ", "L", "a", "s", "t", " ", "e", "r", "r", "o", "r", " ", "(" >> \o failures[1].date
    \o << ")", ":", " " >> \o failures[1].reason

ExhaustedError(failures, requestedDate) ==
  LET undefined == <<"u", "n", "d", "e", "f", "i", "n", "e", "d">>
      last == IF failures = <<>> THEN [date |-> undefined, reason |-> undefined]
              ELSE failures[Len(failures)]
  IN  << "U", "n", "a", "b", "l", "e", " ", "t", "o", " ", "f", "e", "t", "c", "h", " ", "N",
       "A", "S", "A", " ", "A", "P", "O", "D", " ", "a", "f", "t", "e", "r", " ", "c",
       "h", "e", "c", "k", "i", "n", "g", " " >> \o NumberToString(Len(failures))
        \o << " ", "d", "a", "y", "(", "s", ")", " ", "b", "a", "c", "k", " ", "f", "r", "o", "m",
       " " >> \o requestedDate
        \o << ".", " ", "L", "a", "s", "t", " ", "e", "r", "r", "o", "r", " ", "(" >> \o last.date
        \o << ")", ":", " " >> \o last.reason

(***************************************************************************)
(* The APOD API, as the service meets it.                                  *)
(***************************************************************************)
MaxBackInput == 3        \* the small maxDaysBack values run up to this
ExplanationSlack == 2    \* explanation lengths run this far around the limit

\* A text of n characters with a space at every tenth place, the first at
\* `phase`.
Patterned(n, phase, c) == [i \in 1..n |-> IF i % 10 = phase % 10 THEN " " ELSE c]

\* The explanations of the archive: short ones, one with whitespace runs, texts
\* around the limit whose character before the limit is a letter or a space, and
\* a text that is long only by its whitespace.
Explanations ==
  << << "A", " ", "l", "o", "n", "g", " ", "e", "x", "p", "l", "a", "n", "a", "t", "i", "o",
       "n", " ", "a", "b", "o", "u", "t", " ", "t", "h", "e", " ", "c", "o", "s", "m",
       "o", "s", "." >>,
     << "E", "x", "p", "l", "a", "n", "a", "t", "i", "o", "n" >>,
     << " ", "T", "w", "o", " ", " ", "l", "i", "n", "e", "s", LF, " ", "o", "f", Tab, "t",
        "e", "x", "t", " " >> >>
    \o [ k \in 1..(2 * ExplanationSlack + 1) |->
           Patterned(ExplanationMaxLen - ExplanationSlack - 1 + k, ExplanationMaxLen, "b") ]
    \o [ k \in 1..(2 * ExplanationSlack + 1) |->
           Patterned(ExplanationMaxLen - ExplanationSlack - 1 + k, ExplanationMaxLen - 1, "c") ]
    \o << <<"a", "a">> \o [i \in 1..ExplanationMaxLen |-> " "] \o <<"b">> >>

\* The entry the archive holds for day t.
EntryOf(t) ==
  [ date |-> FormatDateUTC(t),
    title |-> <<"T">> \o PadStart2(t % 100),
    explanation |-> Explanations[(t % Len(Explanations)) + 1],
    media_type |-> IF t % 5 = 0 THEN << "v", "i", "d", "e", "o" >> ELSE << "i", "m", "a", "g", "e" >>,
    url |-> <<"u", "/">> \o PadStart2(t % 100),
    hdurl |-> IF t % 2 = 0 THEN <<"h", "d", "/">> \o PadStart2(t % 100) ELSE <<>>,
    copyright |-> IF t % 3 = 0 THEN <<"C", "o">> ELSE <<>> ]

\* The way the request for day t fails when it fails: a status that is not
\* 2xx, with or without a text and with or without a complete body, a body
\* without url, title or explanation, a body that is no JSON, or no response
\* at all.
FailureOf(t) ==
  IF t % 8 = 0 THEN HttpResponse(404, << "N", "o", "t", " ", "f", "o", "u", "n", "d" >>, NoBody)
  ELSE IF t % 8 = 1 THEN HttpResponse(500, <<>>, NoBody)
  ELSE IF t % 8 = 2 THEN HttpResponse(200, <<>>, [EntryOf(t) EXCEPT !.url = <<>>])
  ELSE IF t % 8 = 3 THEN NetworkError(FetchFailed)
  ELSE IF t % 8 = 4 THEN HttpResponse(200, <<>>, [EntryOf(t) EXCEPT !.title = <<>>])
  ELSE IF t % 8 = 5 THEN Unparseable(200, << "<", "h", "t", "m", "l", ">" >>)
  ELSE IF t % 8 = 6 THEN HttpResponse(300, << "b", "u", "s", "y" >>, EntryOf(t))
  ELSE HttpResponse(299, <<>>, [EntryOf(t) EXCEPT !.explanation = <<>>])

\* The status of the usable answer for day t: 200, or another 2xx status.
EntryStatus(t) == IF t % 3 = 0 THEN 299 ELSE IF t % 3 = 1 THEN 201 ELSE 200

\* The answers the request for a date may get: the entry of that day, the
\* entry under the date of the following day (the API's day is ahead of the
\* queried one), or the failure.
Responses(dateToTry) ==
  LET t == ParseDateUTC(dateToTry)[1]
  IN  { HttpResponse(EntryStatus(t), <<>>, EntryOf(t)),
        HttpResponse(EntryStatus(t), <<>>, [EntryOf(t) EXCEPT !.date = FormatDateUTC(t + 1)]),
        FailureOf(t) }

(***************************************************************************)
(* APODService.getSpacePictureOfTheDay                                     *)
(***************************************************************************)
ApPending == [kind |-> "pending", error |-> <<>>]
ApFulfilled(v) == [kind |-> "fulfilled", error |-> <<>>, value |-> v]
ApRejected(e) == [kind |-> "rejected", error |-> e]

\* for (let i = 0; i <= maxDaysBack; i++)
LoopContinuesBelow(i, maxDaysBack) == i < maxDaysBack

LoopContinues(i, maxDaysBack) == i <= maxDaysBack

\* The top of the loop body for a call whose i and current are set: the date
\* of `current` is requested, or, when the loop is over, the error is thrown.
LoopTop(call) ==
  IF LoopContinues(call.i, call.maxDaysBack)
    THEN LET dateToTry == FormatDateUTC(call.current)
         IN  [call EXCEPT !.pc = "fetching", !.dateToTry = dateToTry,
                          !.fetches = Append(@, dateToTry)]
    ELSE [call EXCEPT !.pc = "done",
                      !.result = ApRejected(ExhaustedError(call.failures, call.requestedDate))]

\* getSpacePictureOfTheDay(options) is called on the day `today`.
NewApCall(options, today) ==
  LET requestedDate == IF options.date = None THEN FormatDateUTC(today) ELSE options.date[1]
      call == [ options |-> options, requestedDate |-> requestedDate, pc |-> "done",
                maxDaysBack |-> 0, current |-> 0, i |-> 0, dateToTry |-> <<>>,
                failures |-> <<>>, fetches |-> <<>>, responses |-> <<>>,
                result |-> ApPending ]
  IN  IF ~IsValidDateFormat(requestedDate)
        THEN [call EXCEPT !.result = ApRejected(InvalidDateError)]
        ELSE LoopTop([call EXCEPT !.maxDaysBack = EffectiveMaxDaysBack(options.maxDaysBack),
                                  !.current = ParseDateUTC(requestedDate)[1]])

ApCall(maxCalls, dates, maxDaysBacks, clock) ==
  /\ Len(apCalls) < maxCalls
  /\ \E date \in dates, maxDaysBack \in maxDaysBacks :
       \E today \in (IF date = None THEN clock ELSE {0}) :
         apCalls' = Append(apCalls, NewApCall([date |-> date, maxDaysBack |-> maxDaysBack], today))
  /\ UNCHANGED <<restVars, mailbox, drafts, guVars, cdCalls, toolCalls>>

\* The request of the attempt is answered with a usable body: the result is
\* built and returned.
ApFetchOk(k) ==
  /\ k \in 1..Len(apCalls)
  /\ apCalls[k].pc = "fetching"
  /\ \E response \in Responses(apCalls[k].dateToTry) :
       /\ FetchApod(response).ok
       /\ apCalls' = [apCalls EXCEPT
            ![k].pc = "done",
            ![k].responses = Append(@, response),
            ![k].result = ApFulfilled(ToSpacePictureOfTheDay(FetchApod(response).apod,
                                                             apCalls[k].requestedDate))]
  /\ UNCHANGED <<restVars, mailbox, drafts, guVars, cdCalls, toolCalls>>

\* let current = parseDateUTC(requestedDate): the working date is a local of
\* the invocation, so invocation k reads and moves its own.
SharedCurrent(calls, k) == calls[Len(calls)].current

Current(calls, k) == calls[k].current

\* The attempt fails: the failure is recorded, the date goes one day back, and
\* the loop goes on or ends.
ApFetchFail(k) ==
  /\ k \in 1..Len(apCalls)
  /\ apCalls[k].pc = "fetching"
  /\ \E response \in Responses(apCalls[k].dateToTry) :
       /\ ~FetchApod(response).ok
       /\ apCalls' = [apCalls EXCEPT ![k] =
            LoopTop([apCalls[k] EXCEPT
              !.failures = Append(@, [date |-> apCalls[k].dateToTry,
                                      reason |-> FetchApod(response).reason]),
              !.responses = Append(@, response),
              !.current = AddDaysUTC(Current(apCalls, k), -1),
              !.i = @ + 1])]
  /\ UNCHANGED <<restVars, mailbox, drafts, guVars, cdCalls, toolCalls>>

\* The dates asked for: days at the start of a month, of a year and after a
\* leap day, days no month has, and texts that are not dates.
RealDates ==
  { << "2", "0", "2", "6", "-", "0", "1", "-", "2", "2" >>,
    << "2", "0", "2", "6", "-", "0", "1", "-", "0", "1" >>,
    << "2", "0", "2", "6", "-", "0", "3", "-", "0", "1" >>,
    << "2", "0", "2", "4", "-", "0", "3", "-", "0", "1" >> }

UnrealDates ==
  { << "2", "0", "2", "6", "-", "0", "2", "-", "3", "0" >>,
    << "2", "0", "2", "6", "-", "0", "4", "-", "3", "1" >>,
    << "2", "0", "2", "6", "-", "1", "3", "-", "0", "1" >>,
    << "2", "0", "2", "6", "-", "0", "0", "-", "1", "0" >>,
    << "2", "0", "2", "6", "-", "0", "1", "-", "0", "0" >>,
    << "2", "0", "2", "6", "-", "0", "1", "-", "3", "2" >> }

MalformedDates ==
  { << "0", "1", "-", "2", "2", "-", "2", "0", "2", "6" >>,
    << "2", "0", "2", "6", "-", "1", "-", "2", "2" >>,
    << "2", "0", "2", "6", "/", "0", "1", "/", "2", "2" >>,
    << "2", "0", "2", "6", "-", "0", "1", "-", "2", "2", " " >>,
    <<>> }

ApDates == {None} \cup { Some(d) : d \in RealDates \cup UnrealDates \cup MalformedDates }

\* The days on which a call without date is made.
ClockDays == { MakeDay(2026, 0, 22), MakeDay(2024, 2, 1) }

\* The maxDaysBack values: none, the values that are not finite, small values
\* with halves and below zero, and values around and far above the maximum.
MaxDaysBackInputs ==
  { Undefined, Null, NaN, PlusInfinity, MinusInfinity }
    \cup { Finite(h) : h \in (-3)..(2 * MaxBackInput + 1) }
    \cup { Finite(h) : h \in (2 * MostDaysBack - 1)..(2 * MostDaysBack + 2) }
    \cup { Finite(200) }

InitApod == InitDraft

NextApod ==
  \/ ApCall(1, ApDates, MaxDaysBackInputs, ClockDays)
  \/ ApFetchOk(1)
  \/ ApFetchFail(1)

SpecApod == InitApod /\ [][NextApod]_vars

(***************************************************************************)
(* registerTools: the flag, the tools listed and the call handler.         *)
(***************************************************************************)
UpperCase ==
  << "A", "B", "C", "D", "E", "F", "G", "H", "I", "J", "K", "L", "M",
     "N", "O", "P", "Q", "R", "S", "T", "U", "V", "W", "X", "Y", "Z" >>
LowerCase ==
  << "a", "b", "c", "d", "e", "f", "g", "h", "i", "j", "k", "l", "m",
     "n", "o", "p", "q", "r", "s", "t", "u", "v", "w", "x", "y", "z" >>

\* string.toLowerCase()
ToLowerCase(s) ==
  [ i \in 1..Len(s) |->
      IF \E k \in 1..26 : UpperCase[k] = s[i]
        THEN LowerCase[CHOOSE k \in 1..26 : UpperCase[k] = s[i]]
        ELSE s[i] ]

DisablingWords ==
  { << "0" >>, << "f", "a", "l", "s", "e" >>, << "n", "o" >>, << "n" >>, << "o", "f", "f" >>,
    << "d", "i", "s", "a", "b", "l", "e", "d" >> }

EnablingWords ==
  { << "1" >>, << "t", "r", "u", "e" >>, << "y", "e", "s" >>, << "y" >>, << "o", "n" >>,
    << "e", "n", "a", "b", "l", "e", "d" >> }

\* isSpacePictureEnabled(), given process.env.ENABLE_SPACE_PICTURE_OF_THE_DAY.
IsSpacePictureEnabled(raw) ==
  IF raw = None THEN TRUE
  ELSE LET v == ToLowerCase(Trim(raw[1]))
       IN  IF v \in DisablingWords THEN FALSE
           ELSE IF v \in EnablingWords THEN TRUE
           ELSE TRUE

GmailTools == << "get_unread_emails", "create_draft_reply" >>
NasaApodTools == << "get_space_picture_of_the_day", "get_cosmic_inspiration" >>

\* registerTools, with the flag as the environment gives it: allTools is what
\* the list handler answers with, toolHandlersByName holds the own properties
\* of the object the call handler looks names up in.
RegisterTools(raw) ==
  LET nasaApodTools == IF IsSpacePictureEnabled(raw) THEN NasaApodTools ELSE <<>>
      allTools == GmailTools \o nasaApodTools
  IN  [ started |-> TRUE, flag |-> raw, allTools |-> allTools,
        toolHandlersByName |-> { allTools[i] : i \in 1..Len(allTools) },
        listed |-> None ]

\* Members every object inherits from Object.prototype.
ObjectPrototype == {"constructor", "toString", "hasOwnProperty", "__proto__"}

\* toolHandlersByName[name]: an own handler, a member inherited from
\* Object.prototype, or undefined.
HandlerOf(name) ==
  IF name \in server.toolHandlersByName THEN "own"
  ELSE IF name \in ObjectPrototype THEN "inherited"
  ELSE "undefined"

\* `Unknown tool: ${name}`, for the names that are called.
UnknownTool(name) ==
  CASE name = "get_space_picture_of_the_day" -> "Unknown tool: get_space_picture_of_the_day"
    [] name = "get_cosmic_inspiration" -> "Unknown tool: get_cosmic_inspiration"
    [] name = "get_weather" -> "Unknown tool: get_weather"
    [] name = "constructor" -> "Unknown tool: constructor"
    [] name = "toString" -> "Unknown tool: toString"
    [] name = "hasOwnProperty" -> "Unknown tool: hasOwnProperty"
    [] name = "__proto__" -> "Unknown tool: __proto__"

\* await handler(args) where handler is a member of Object.prototype and is
\* called without receiver: toString answers for undefined, Object(args) gives
\* the arguments back, hasOwnProperty throws, and __proto__ is no function.
InheritedCall(name, args) ==
  IF name = "toString" THEN Fulfilled("[object Undefined]")
  ELSE IF name = "constructor" THEN Fulfilled(OrEmpty(args))
  ELSE IF name = "hasOwnProperty" THEN Rejected("Cannot convert undefined or null to object")
  ELSE Rejected("handler is not a function")

\* The call handler's try and catch around a settled handler: the result, or
\* the message of the error, as the response.
Respond(settled) ==
  IF settled.kind = "fulfilled" THEN CreateMCPResponse(settled.value, FALSE)
  ELSE CreateMCPResponse([error |-> settled.error], TRUE)

\* The list handler answers with the definitions of allTools.
ListTools ==
  /\ server.started
  /\ server.listed = None
  /\ server' = [server EXCEPT !.listed = Some(server.allTools)]
  /\ UNCHANGED <<mailbox, drafts, guVars, cdCalls, toolCalls, apCalls, guard, auth>>

\* A call of a name that is no own property of toolHandlersByName: without a
\* handler the call handler throws 'Unknown tool' into its own catch; with an
\* inherited member it calls that member.
CallUnregistered(maxCalls, names) ==
  /\ server.started
  /\ Len(toolCalls) < maxCalls
  /\ \E name \in names, args \in {NoArgs, Args(Some(1), None, None)} :
       /\ HandlerOf(name) # "own"
       /\ toolCalls' = Append(toolCalls,
            [ name |-> name, args |-> args, pc |-> "returned", handler |-> HandlerOf(name),
              cd |-> 0, ap |-> 0,
              response |->
                IF HandlerOf(name) = "undefined"
                  THEN Respond(Rejected(UnknownTool(name)))
                  ELSE Respond(InheritedCall(name, args)) ])
  /\ UNCHANGED <<restVars, mailbox, drafts, guVars, cdCalls, apCalls>>

\* A get_unread_emails call: the handler calls getUnreadEmails and awaits it.
CallGetUnreadEmails(maxCalls) ==
  /\ server.started
  /\ Len(toolCalls) < maxCalls
  /\ HandlerOf("get_unread_emails") = "own"
  /\ guPc = "idle"
  /\ guPc' = "listing"
  /\ toolCalls' = Append(toolCalls,
       [ name |-> "get_unread_emails", args |-> NoArgs, pc |-> "awaiting", handler |-> "own",
         cd |-> 0, ap |-> 0, response |-> NoResponse ])
  /\ UNCHANGED <<restVars, mailbox, drafts, guList, guMessages, guFetch, guValues, guResult,
                 guOrder, cdCalls, apCalls>>

\* getUnreadEmails has settled: its summaries, or its error, are the response.
ToolReturnUnread(t) ==
  /\ t \in 1..Len(toolCalls)
  /\ toolCalls[t].pc = "awaiting"
  /\ toolCalls[t].name = "get_unread_emails"
  /\ guResult.kind # "pending"
  /\ toolCalls' = [toolCalls EXCEPT ![t].pc = "returned", ![t].response = Respond(guResult)]
  /\ UNCHANGED <<restVars, mailbox, drafts, guVars, cdCalls, apCalls>>

\* The arguments of a space-picture call, and (args ?? {}) of them.
NoPictureArgs == [defined |-> FALSE, date |-> None, maxDaysBack |-> Undefined]
PictureArgs(date, maxDaysBack) == [defined |-> TRUE, date |-> date, maxDaysBack |-> maxDaysBack]

\* A call of one of the two space-picture names while they are registered: the
\* handler passes date and maxDaysBack on to getSpacePictureOfTheDay.
CallSpacePicture(maxCalls, names, argsSet, clock) ==
  /\ server.started
  /\ Len(toolCalls) < maxCalls
  /\ \E name \in names, args \in argsSet :
       /\ HandlerOf(name) = "own"
       /\ \E today \in (IF args.date = None THEN clock ELSE {0}) :
            apCalls' = Append(apCalls,
              NewApCall([date |-> args.date, maxDaysBack |-> args.maxDaysBack], today))
       /\ toolCalls' = Append(toolCalls,
            [ name |-> name, args |-> args, pc |-> "awaiting", handler |-> "own", cd |-> 0,
              ap |-> Len(apCalls) + 1, response |-> NoResponse ])
  /\ UNCHANGED <<restVars, mailbox, drafts, guVars, cdCalls>>

\* getSpacePictureOfTheDay has settled: the picture, or the error, is the response.
ToolReturnPicture(t) ==
  /\ t \in 1..Len(toolCalls)
  /\ toolCalls[t].pc = "awaiting"
  /\ toolCalls[t].name \in { NasaApodTools[i] : i \in 1..2 }
  /\ apCalls[toolCalls[t].ap].pc = "done"
  /\ toolCalls' = [toolCalls EXCEPT
       ![t].pc = "returned", ![t].response = Respond(apCalls[toolCalls[t].ap].result)]
  /\ UNCHANGED <<restVars, mailbox, drafts, guVars, cdCalls, apCalls>>

\* The values of the flag: unset, words that disable (as written, padded, in
\* capitals), a word that enables, the empty string and an unknown word.
FlagValues ==
  { None,
    Some(<< "f", "a", "l", "s", "e" >>),
    Some(<< " ", "O", "F", "F", LF >>),
    Some(<< "0" >>),
    Some(<< "t", "r", "u", "e" >>),
    Some(<<>>),
    Some(<< "m", "a", "y", "b", "e" >>) }

\* The names called: the four tools, members of Object.prototype and a name
\* nothing carries.
CalledNames ==
  { NasaApodTools[i] : i \in 1..2 } \cup ObjectPrototype \cup {"get_weather"}

ServerDraftArgs ==
  { NoArgs,
    Args(Some(1), Some(<<"o", "k">>), None),
    Args(Some(UnknownId), Some(<<"o", "k">>), None),
    Args(Some(1), Some(<<>>), None) }

ServerPictureArgs ==
  { NoPictureArgs,
    PictureArgs(Some(FormatDateUTC(MakeDay(2026, 0, 22))), Finite(2)),
    PictureArgs(Some(<< "0", "1", "-", "2", "2", "-", "2", "0", "2", "6" >>), Undefined),
    PictureArgs(None, Finite(0)) }

InitServer ==
  /\ mailbox = CallMailbox
  /\ InitCd
  /\ InitGu
  /\ InitTools
  /\ InitAp
  /\ guard = NoGuard
  /\ auth = NoAuth
  /\ server \in { RegisterTools(raw) : raw \in FlagValues }

NextServer ==
  \/ ListTools
  \/ CallUnregistered(1, CalledNames)
  \/ CallGetUnreadEmails(1)
  \/ GuListFail
  \/ GuListOk
  \/ \E i \in 1..NumMsgs : GuFetchOk(i)
  \/ \E i \in 1..NumMsgs : GuFetchFail(i)
  \/ ToolReturnUnread(1)
  \/ CallCreateDraftReply(1, ServerDraftArgs)
  \/ CdFetchFail(1)
  \/ CdFetchOk(1)
  \/ CdCreateOk(1)
  \/ CdCreateFail(1)
  \/ ToolReturn(1)
  \/ CallSpacePicture(1, { NasaApodTools[i] : i \in 1..2 }, ServerPictureArgs, {MakeDay(2026, 0, 22)})
  \/ ApFetchOk(1)
  \/ ApFetchFail(1)
  \/ ToolReturnPicture(1)

SpecServer == InitServer /\ [][NextServer]_vars

(***************************************************************************)
(* The reply guardrail: assertReplyBodyHasMainReplyBeforeSpaceEdition.     *)
(***************************************************************************)
MaxPieces == 3           \* a reply body is made of at most this many pieces

Marker == Banner

\* The position of the last occurrence, -1 for none.
LastIndexOf(s, part) ==
  LET at == { i \in 0..(Len(s) - Len(part)) : \A j \in 1..Len(part) : s[i + j] = part[j] }
  IN  IF at = {} THEN -1 ELSE CHOOSE i \in at : \A j \in at : i >= j

\* string.indexOf(part): the 0-based position of the first occurrence, -1 for none.
IndexOf(s, part) ==
  LET at == { i \in 0..(Len(s) - Len(part)) : \A j \in 1..Len(part) : s[i + j] = part[j] }
  IN  IF at = {} THEN -1 ELSE CHOOSE i \in at : \A j \in at : i <= j

\* The same prefix with its tags left in place.
KeepTags(prefix) == prefix

\* prefix.replace(/<[^>]*>/g, ' '): every match, from a "<" to the first ">"
\* after it, becomes one space.  The matches are found from left to right and
\* never overlap, so a character belongs to a match exactly when a "<" at or
\* before it is followed by no ">" up to it and by a ">" at or after it; the
\* ">" of a match closes it.
ReplaceTags(prefix) ==
  LET n == Len(prefix)
      InMatch(j) ==
        /\ \E e \in j..n : prefix[e] = ">"
        /\ \E s \in 1..j : prefix[s] = "<" /\ \A g \in s..(j - 1) : prefix[g] # ">"
      Piece(j) ==
        IF ~InMatch(j) THEN <<prefix[j]>>
        ELSE IF prefix[j] = ">" THEN <<" ">>
        ELSE <<>>
  IN  Concat([j \in 1..n |-> Piece(j)], 1, n)

OnlySpaceEditionHtml ==
  "replyBody appears to contain only the Space Edition section. Write the email reply FIRST, then append the Space Edition block after it (use format=\"html\" if embedding the image)."
OnlySpaceEditionPlain ==
  "replyBody appears to contain only the Space Edition section. Write the email reply FIRST, then append the Space Edition block after it."

\* assertReplyBodyHasMainReplyBeforeSpaceEdition(replyBody, format): None when
\* it returns, the message of the error when it throws.
AssertReplyBodyHasMainReplyBeforeSpaceEdition(replyBody, format) ==
  LET idx == IndexOf(replyBody, Marker)
      prefix == Slice(replyBody, 0, idx)
  IN  IF idx = -1 THEN None
      ELSE IF format = "html"
        THEN LET prefixText == NormalizeWhitespace(ReplaceTags(prefix))
             IN  IF Len(prefixText) = 0 THEN Some(OnlySpaceEditionHtml) ELSE None
      ELSE IF Len(Trim(prefix)) = 0 THEN Some(OnlySpaceEditionPlain)
      ELSE None

\* The guardrail is applied to the reply body it was called with.
AssertReply ==
  /\ guard.pc = "called"
  /\ LET thrown == AssertReplyBodyHasMainReplyBeforeSpaceEdition(guard.replyBody, guard.format)
     IN  guard' = [guard EXCEPT !.pc = IF thrown = None THEN "returned" ELSE "threw",
                                !.error = thrown]
  /\ UNCHANGED <<mailbox, drafts, guVars, cdCalls, toolCalls, apCalls, server, auth>>

\* The reply bodies: the concatenations of at most MaxPieces pieces, each the
\* marker, a tag, a lone angle bracket, whitespace or a word.
GuardPieces ==
  { Marker, <<"<", "p", ">">>, <<"<">>, <<">">>, <<" ">>, <<LF>>, <<"H", "i">> }

GuardBodies == { Concat(pieces, 1, Len(pieces)) : pieces \in StringsUpTo(GuardPieces, MaxPieces) }

DraftFormats == {"plain", "html"}

InitGuard ==
  /\ mailbox = CallMailbox
  /\ InitCd
  /\ InitGu
  /\ InitTools
  /\ InitAp
  /\ server = NoServer
  /\ auth = NoAuth
  /\ guard \in { [pc |-> "called", replyBody |-> b, format |-> f, error |-> None] :
                   b \in GuardBodies, f \in DraftFormats }

NextGuard == AssertReply

SpecGuard == InitGuard /\ [][NextGuard]_vars

(***************************************************************************)
(* The authorization script (auth.ts): saving the refresh token to .env.   *)
(***************************************************************************)
MaxEnvLines == 3         \* the settings file has at most this many lines

KeyPrefix ==
  << "G", "M", "A", "I", "L", "_", "R", "E", "F", "R", "E", "S", "H", "_", "T", "O", "K", "E",
     "N", "=" >>

\* envContent.split('\n'): the pieces between the line feeds, one more than
\* there are line feeds; the empty string gives one empty line.
Split(content) ==
  LET n == Len(content)
      breaks == { i \in 1..n : content[i] = LF }
      Nth(k) == IF k = 0 THEN 0
                ELSE IF k > Cardinality(breaks) THEN n + 1
                ELSE CHOOSE p \in breaks : Cardinality({ q \in breaks : q <= p }) = k
  IN  [ k \in 1..(Cardinality(breaks) + 1) |-> SubSeq(content, Nth(k - 1) + 1, Nth(k) - 1) ]

\* The lines with the key line put after them, whatever they hold.
AppendedLines(lines, refreshToken) == Append(lines, KeyPrefix \o refreshToken)

\* lines.map(...) and the push when no line was found: every line that starts
\* with the key prefix becomes the key line of the token, and without such a
\* line the key line is added at the end.
UpdatedLines(lines, refreshToken) ==
  LET found == \E i \in 1..Len(lines) : StartsWith(lines[i], KeyPrefix)
      mapped == [ i \in 1..Len(lines) |->
                    IF StartsWith(lines[i], KeyPrefix) THEN KeyPrefix \o refreshToken
                    ELSE lines[i] ]
  IN  IF found THEN mapped ELSE Append(mapped, KeyPrefix \o refreshToken)

\* getRefreshToken resolves with the token: main reads .env when it exists,
\* updates the lines and writes them back joined by line feeds.
SaveRefreshToken(tokens) ==
  /\ auth.pc = "authorizing"
  /\ \E refreshToken \in tokens :
       LET envContent == IF auth.exists THEN auth.content ELSE <<>>
       IN  auth' = [auth EXCEPT
             !.pc = "saved",
             !.token = refreshToken,
             !.exists = TRUE,
             !.content = Join(UpdatedLines(Split(envContent), refreshToken), <<LF>>)]
  /\ UNCHANGED <<mailbox, drafts, guVars, cdCalls, toolCalls, apCalls, guard, server>>

\* getRefreshToken rejects (no code, no refresh token, timeout): main reports
\* the error and exits; the file is not touched.
AuthorizationFails ==
  /\ auth.pc = "authorizing"
  /\ auth' = [auth EXCEPT !.pc = "exited"]
  /\ UNCHANGED <<mailbox, drafts, guVars, cdCalls, toolCalls, apCalls, guard, server>>

\* The lines a settings file is made of: another key, the key with a value and
\* without, a key that only begins like it, a comment naming it, an empty line.
EnvLines ==
  { << "A", "=", "1" >>,
    KeyPrefix \o << "o", "l", "d" >>,
    KeyPrefix,
    << "G", "M", "A", "I", "L", "_", "R", "E", "F", "R", "E", "S", "H", "_", "T", "O", "K", "E",
       "N", "S", "=", "2" >>,
    << "#" >> \o KeyPrefix,
    <<>> }

EnvFiles == { Join(lines, <<LF>>) : lines \in StringsUpTo(EnvLines, MaxEnvLines) }

RefreshTokens == { << "n", "e", "w" >>, << "o", "l", "d" >> }

InitAuth ==
  /\ mailbox = CallMailbox
  /\ InitCd
  /\ InitGu
  /\ InitTools
  /\ InitAp
  /\ guard = NoGuard
  /\ server = NoServer
  /\ auth \in { [pc |-> "authorizing", exists |-> TRUE, content |-> c, before |-> c, token |-> <<>>] :
                  c \in EnvFiles }
            \cup { [pc |-> "authorizing", exists |-> FALSE, content |-> <<>>, before |-> <<>>,
                    token |-> <<>>] }

NextAuth ==
  \/ SaveRefreshToken(RefreshTokens)
  \/ AuthorizationFails

SpecAuth == InitAuth /\ [][NextAuth]_vars

(***************************************************************************)
(* Invocations in flight together.  The handlers are async functions of    *)
(* two service objects whose only fields are the provider client and the   *)
(* API key; between two awaits of one invocation any step of another may   *)
(* run.  Either two date walks and a createDraftReply are in flight, or a  *)
(* getUnreadEmails over a listing of up to two messages and a              *)
(* createDraftReply.                                                       *)
(***************************************************************************)
\* The dates of the interleaved walks: two days the walks leave by a month
\* and by a leap day, and a text that is no date.
InterleavedDates ==
  { Some(<< "2", "0", "2", "6", "-", "0", "1", "-", "0", "1" >>),
    Some(<< "2", "0", "2", "4", "-", "0", "3", "-", "0", "1" >>),
    Some(<< "2", "0", "2", "6", "/", "0", "1", "/", "2", "2" >>) }

\* Every interleaved walk may go MaxBackInput - 1 days back.
InterleavedDaysBack == { Finite(2 * (MaxBackInput - 1)) }

InitInterleave == InitDraft

NextInterleave ==
  \/ guPc = "idle" /\ ApCall(2, InterleavedDates, InterleavedDaysBack, ClockDays)
  \/ \E k \in 1..2 : ApFetchOk(k)
  \/ \E k \in 1..2 : ApFetchFail(k)
  \/ apCalls = <<>> /\ GuCall
  \/ GuListFail
  \/ GuListOk /\ Len(guMessages') <= 2
  \/ \E i \in 1..NumMsgs : GuFetchOk(i)
  \/ \E i \in 1..NumMsgs : GuFetchFail(i)
  \/ CdCall(1, {1, UnknownId}, {<<"o", "k">>})
  \/ CdFetchFail(1)
  \/ CdFetchOk(1)
  \/ CdCreateOk(1)
  \/ CdCreateFail(1)

SpecInterleave == InitInterleave /\ [][NextInterleave]_vars

(***************************************************************************)
(* Properties of getUnreadEmails (checked under SpecUnread).               *)
(***************************************************************************)
\* The requests that have settled out of listing order.
OutOfOrder ==
  \E a, b \in 1..Len(guOrder) : a < b /\ guOrder[a].index > guOrder[b].index

\* The first rejection among the settled requests ("" when there is none).
FirstRejection ==
  LET failed == { k \in 1..Len(guOrder) : guOrder[k].error # "" }
  IN  IF failed = {} THEN "" ELSE guOrder[Min(failed)].error

\* C1: for a listing of N message ids, getUnreadEmails returns exactly N
\* summaries and the i-th summary carries the id and the thread id of the
\* i-th listed message, in whatever order the per-message fetches complete.
C1_SummariesFollowListing ==
  guResult.kind = "fulfilled" =>
    /\ Len(guResult.value) = Len(guList.messages)
    /\ \A i \in 1..Len(guList.messages) :
         /\ guResult.value[i].emailId = guList.messages[i]
         /\ guResult.value[i].threadId = mailbox[guList.messages[i]].threadId

\* C1 witness: a full result of at least two summaries whose fetches completed
\* in another order than the listing.
C1_Witness ==
  /\ guResult.kind = "fulfilled"
  /\ Len(guResult.value) >= 2
  /\ OutOfOrder

\* C2: getUnreadEmails is all-or-nothing: once the list call or a per-message
\* fetch has failed the call is rejected with the error of the first failure,
\* and a list is returned only when every listed message has its summary.
C2_AllOrNothing ==
  /\ FirstRejection # "" =>
       /\ guPc = "done"
       /\ guResult.kind = "rejected"
       /\ guResult.error = FirstRejection
       /\ guResult.value = <<>>
  /\ guResult.kind = "fulfilled" =>
       /\ FirstRejection = ""
       /\ Len(guResult.value) = Len(guList.messages)
       /\ \A i \in 1..Len(guResult.value) : guResult.value[i] # NoSummary

\* C2 witness: a fetch failed after another fetch had already delivered its
\* summary, and the caller holds the error only.
C2_Witness ==
  /\ guResult.kind = "rejected"
  /\ \E i, j \in 1..Len(guFetch) : guFetch[i] = "fulfilled" /\ guFetch[j] = "rejected"
  /\ \E i \in 1..Len(guValues) : guValues[i] # NoSummary

\* C3: when the listing matches no message (data.messages empty or absent)
\* getUnreadEmails returns the empty sequence, raises no error and requests no
\* message.
C3_EmptyListing ==
  (guList.status = "fulfilled" /\ (~guList.defined \/ guList.messages = <<>>)) =>
    /\ guPc = "done"
    /\ guResult = Fulfilled(<<>>)
    /\ guFetch = <<>>
    /\ guOrder = <<>>

\* C3 witness: the list response had no messages field and the call returned.
C3_Witness ==
  /\ guList.status = "fulfilled"
  /\ ~guList.defined
  /\ guPc = "done"

(***************************************************************************)
(* Properties of the composed reply (checked under SpecDraft, SpecCompose).*)
(***************************************************************************)
\* The invocations whose original message has been fetched: the reply has been
\* composed and submitted.
ComposedCalls == { k \in 1..Len(cdCalls) : cdCalls[k].fetched = "fulfilled" }

\* The lines before the first empty line.
HeaderLinesOf(lines) ==
  SubSeq(lines, 1, Min({ i \in 1..Len(lines) : lines[i] = <<>> }) - 1)

\* The lines that start with a label.
LinesStarting(lines, label) == { lines[i] : i \in { j \in 1..Len(lines) : StartsWith(lines[j], label) } }

\* The Message-ID values the headers of a message carry.
MessageIdsOf(msg) ==
  { msg.headers[i].value : i \in { j \in 1..Len(msg.headers) : msg.headers[j].name = "Message-ID" } }

\* The value of a header line, after its label.
ValueOf(line, label) == SubSeq(line, Len(label) + 1, Len(line))

\* C4: the composed reply has the In-Reply-To and References header lines if
\* and only if the original message carried a Message-ID, both lines then hold
\* that Message-ID; without a Message-ID the reply is composed and submitted
\* all the same, and the draft created.
C4_ThreadingHeaders ==
  \A k \in ComposedCalls :
    LET c == cdCalls[k]
        ids == MessageIdsOf(mailbox[c.emailId])
        hs == HeaderLinesOf(c.emailLines)
    IN  /\ c.creates = 1
        /\ c.created = "fulfilled" => \E d \in 1..Len(drafts) : drafts[d].raw = c.request.raw
        /\ IF ids # {}
             THEN \E id \in ids :
                    /\ LinesStarting(hs, InReplyToLabel) = { InReplyToLabel \o id }
                    /\ LinesStarting(hs, ReferencesLabel) = { ReferencesLabel \o id }
             ELSE /\ LinesStarting(hs, InReplyToLabel) = {}
                  /\ LinesStarting(hs, ReferencesLabel) = {}

\* C4 witness: a draft created for an original without Message-ID and a draft
\* created for an original with one.
C4_Witness ==
  \E j, k \in ComposedCalls :
    /\ cdCalls[j].created = "fulfilled"
    /\ cdCalls[k].created = "fulfilled"
    /\ MessageIdsOf(mailbox[cdCalls[j].emailId]) = {}
    /\ MessageIdsOf(mailbox[cdCalls[k].emailId]) # {}

\* The places of a text where a blank line (CRLF CRLF) starts.
BlankLines(text) ==
  { i \in 1..(Len(text) - 3) :
      text[i] = CR /\ text[i + 1] = LF /\ text[i + 2] = CR /\ text[i + 3] = LF }

\* The header lines come in the order To, Subject, [In-Reply-To, References],
\* Content-Type, and are followed by the empty line and the body.
FixedOrder(lines, replyBody) ==
  LET n == Len(lines)
  IN  /\ n \in {5, 7}
      /\ StartsWith(lines[1], ToLabel)
      /\ StartsWith(lines[2], SubjectLabel)
      /\ n = 7 => /\ StartsWith(lines[3], InReplyToLabel)
                  /\ StartsWith(lines[4], ReferencesLabel)
      /\ lines[n - 2] = ContentTypeLine
      /\ lines[n - 1] = <<>>
      /\ lines[n] = replyBody

IsReply(subject) ==
  /\ Len(subject) >= 4
  /\ subject[1] = "R" /\ subject[2] = "e" /\ subject[3] = ":" /\ subject[4] = " "

\* C6: the subject of the reply is the original subject when that starts with
\* exactly "Re: ", and "Re: " followed by the original subject otherwise;
\* deriving the reply subject from a reply subject changes nothing.
C6_ReplySubjectIdempotent ==
  \A k \in ComposedCalls :
    LET subject == HeaderValue(mailbox[cdCalls[k].emailId].headers, "Subject")
        line == cdCalls[k].emailLines[2]
        replySubject == ValueOf(line, SubjectLabel)
    IN  /\ StartsWith(line, SubjectLabel)
        /\ IsReply(subject) => replySubject = subject
        /\ ~IsReply(subject) => replySubject = <<"R", "e", ":", " ">> \o subject
        /\ IsReply(replySubject)
        /\ ReplySubject(replySubject) = replySubject

\* C6 witness: a reply composed to a subject that is already a reply.
C6_Witness ==
  \E k \in ComposedCalls :
    LET subject == HeaderValue(mailbox[cdCalls[k].emailId].headers, "Subject")
    IN  /\ IsReply(subject)
        /\ Len(subject) > 4
        /\ ValueOf(cdCalls[k].emailLines[2], SubjectLabel) = subject

\* C7: the raw payload submitted to drafts.create holds none of "+", "/", "=",
\* and decoding it (padding restored) gives back exactly the CRLF-joined
\* header lines and reply body.
C7_Base64UrlRoundTrip ==
  \A k \in ComposedCalls :
    LET raw == cdCalls[k].request.raw
    IN  /\ \A i \in 1..Len(raw) : raw[i] \notin {"+", "/", "="}
        /\ DecodeRaw(raw) = Join(cdCalls[k].emailLines, CRLF)

\* C7 witness: a payload whose byte length leaves remainder 1 modulo 3 (two
\* padding characters removed) and whose base64 form held a "/".
C7_Witness ==
  \E k \in ComposedCalls :
    /\ Len(Utf8Encode(cdCalls[k].rawEmail)) % 3 = 1
    /\ \E i \in 1..Len(cdCalls[k].request.raw) : cdCalls[k].request.raw[i] = "_"

\* The angle-bracketed addresses of a From value: the non-empty texts without
\* angle brackets between a "<" and a ">".
BracketedAddresses(fromHeader) ==
  { SubSeq(fromHeader, p[1] + 1, p[2] - 1) :
      p \in { q \in (1..Len(fromHeader)) \X (1..Len(fromHeader)) :
                /\ q[1] + 1 < q[2]
                /\ fromHeader[q[1]] = "<"
                /\ fromHeader[q[2]] = ">"
                /\ \A i \in (q[1] + 1)..(q[2] - 1) : fromHeader[i] \notin {"<", ">"} } }

\* C10: the To value of the reply is the angle-bracketed address of the
\* original From value, without display name and angle brackets, when From
\* holds an angle-bracketed address, and the From value verbatim otherwise.
C10_ToIsAddressOnly ==
  \A k \in ComposedCalls :
    LET fromHeader == HeaderValue(mailbox[cdCalls[k].emailId].headers, "From")
        line == cdCalls[k].emailLines[1]
        to == ValueOf(line, ToLabel)
    IN  /\ StartsWith(line, ToLabel)
        /\ IF BracketedAddresses(fromHeader) # {}
             THEN to \in BracketedAddresses(fromHeader)
             ELSE to = fromHeader

(***************************************************************************)
(* Properties of the createDraftReply invocations (checked under           *)
(* SpecDraft).                                                             *)
(***************************************************************************)
FulfilledCalls == { k \in 1..Len(cdCalls) : cdCalls[k].result.kind = "fulfilled" }

\* C8: when the fetch of the original or the submission of the draft is
\* rejected, createDraftReply is rejected with the provider's error, unchanged;
\* after a rejected fetch (always so for an unknown emailId) drafts.create is
\* never requested and no draft comes to exist.
C8_ErrorsPassThrough ==
  /\ \A k \in 1..Len(cdCalls) :
       LET c == cdCalls[k]
       IN  /\ c.providerError # "" =>
                /\ c.pc = "done"
                /\ c.result.kind = "rejected"
                /\ c.result.error = c.providerError
           /\ c.fetched = "rejected" => c.creates = 0 /\ c.created = "none"
           /\ c.emailId \notin DOMAIN mailbox =>
                /\ c.fetched \in {"pending", "rejected"}
                /\ c.fetched = "rejected" => c.result.error = NotFound
  /\ Len(drafts) <= Cardinality({ k \in 1..Len(cdCalls) : cdCalls[k].creates = 1 })

\* C8 witness: a call with an unknown emailId has failed with the provider's
\* "not found" error and no draft exists.
C8_Witness ==
  /\ drafts = <<>>
  /\ \E k \in 1..Len(cdCalls) :
       /\ cdCalls[k].emailId = UnknownId
       /\ cdCalls[k].result.kind = "rejected"
       /\ cdCalls[k].result.error = NotFound
       /\ cdCalls[k].creates = 0

\* C9: a successful createDraftReply call has requested the original once and
\* the creation of a draft once, and after k successful calls exactly k drafts
\* exist, each call holding the id of a draft of its own, also when calls have
\* the same arguments.
C9_OneDraftPerCall ==
  /\ \A k \in FulfilledCalls : cdCalls[k].gets = 1 /\ cdCalls[k].creates = 1
  /\ Len(drafts) = Cardinality(FulfilledCalls)
  /\ \A k \in FulfilledCalls :
       \E d \in 1..Len(drafts) :
         /\ drafts[d].id = cdCalls[k].result.value.draftId
         /\ drafts[d].raw = cdCalls[k].request.raw
  /\ \A j, k \in FulfilledCalls :
       j # k => cdCalls[j].result.value.draftId # cdCalls[k].result.value.draftId

\* C9 witness: two successful calls with the same emailId and replyBody, and
\* two drafts.
C9_Witness ==
  /\ Len(drafts) = 2
  /\ \E j, k \in FulfilledCalls :
       /\ j # k
       /\ cdCalls[j].emailId = cdCalls[k].emailId
       /\ cdCalls[j].replyBody = cdCalls[k].replyBody

\* C11: the draft is submitted with the thread id of the original message, and
\* a successful createDraftReply returns the id the provider assigned to the
\* draft together with the thread id of the original, whatever thread the
\* response of drafts.create reports.
C11_OriginalThread ==
  \A k \in 1..Len(cdCalls) :
    LET c == cdCalls[k]
    IN  /\ c.fetched = "fulfilled" => c.request.threadId = mailbox[c.emailId].threadId
        /\ c.result.kind = "fulfilled" =>
             /\ c.result.value.threadId = mailbox[c.emailId].threadId
             /\ \E d \in 1..Len(drafts) :
                  /\ drafts[d].id = c.result.value.draftId
                  /\ drafts[d].threadId = mailbox[c.emailId].threadId
                  /\ drafts[d].raw = c.request.raw

\* C11 witness: two successful calls on originals of different threads, each
\* holding the thread of its own original.
C11_Witness ==
  \E j, k \in FulfilledCalls :
    /\ mailbox[cdCalls[j].emailId].threadId # mailbox[cdCalls[k].emailId].threadId
    /\ cdCalls[j].result.value.threadId = mailbox[cdCalls[j].emailId].threadId
    /\ cdCalls[k].result.value.threadId = mailbox[cdCalls[k].emailId].threadId

(***************************************************************************)
(* Properties of the create_draft_reply tool (checked under SpecTool).     *)
(***************************************************************************)
\* The Content-Type line of an HTML message.
HtmlContentTypeLine ==
  << "C", "o", "n", "t", "e", "n", "t", "-", "T", "y", "p", "e", ":", " ",
     "t", "e", "x", "t", "/", "h", "t", "m", "l", ";", " ",
     "c", "h", "a", "r", "s", "e", "t", "=", "u", "t", "f", "-", "8" >>

\* The lines of a composed reply before its body.
LinesOf(c) == { c.emailLines[i] : i \in 1..(Len(c.emailLines) - 1) }

\* The tool calls whose reply has been composed.
ComposedToolCalls ==
  { t \in 1..Len(toolCalls) :
      toolCalls[t].cd # 0 /\ cdCalls[toolCalls[t].cd].fetched = "fulfilled" }

\* C12: the create_draft_reply tool accepts an optional format argument, and
\* the reply composed for a call with format "html" has the HTML Content-Type
\* line instead of the text/plain one.
C12_HtmlDraft ==
  \A t \in ComposedToolCalls :
    OrEmpty(toolCalls[t].args).format = Some("html") =>
      /\ "format" \in CreateDraftReplySchema.properties
      /\ "format" \notin CreateDraftReplySchema.required
      /\ HtmlContentTypeLine \in LinesOf(cdCalls[toolCalls[t].cd])
      /\ ContentTypeLine \notin LinesOf(cdCalls[toolCalls[t].cd])

(***************************************************************************)
(* Properties of getSpacePictureOfTheDay (checked under SpecApod).         *)
(***************************************************************************)
\* The calendar: the length of each month of a year.
IsLeap(y) == y % 4 = 0 /\ (y % 100 # 0 \/ y % 400 = 0)

DaysInMonth(y, m) ==
  IF m = 2 THEN (IF IsLeap(y) THEN 29 ELSE 28)
  ELSE IF m \in {4, 6, 9, 11} THEN 30 ELSE 31

\* A text of the form YYYY-MM-DD, and its year, month and day.
IsDateText(d) ==
  /\ Len(d) = 10
  /\ \A i \in 1..10 : IF i \in {5, 8} THEN d[i] = "-" ELSE d[i] \in DigitChars

YearOf(d) == DecimalValue(SubSeq(d, 1, 4))
MonthOf(d) == DecimalValue(SubSeq(d, 6, 7))
DayOf(d) == DecimalValue(SubSeq(d, 9, 10))

\* A date text that names a day of the calendar.
IsCalendarDate(d) ==
  /\ IsDateText(d)
  /\ MonthOf(d) \in 1..12
  /\ DayOf(d) \in 1..DaysInMonth(YearOf(d), MonthOf(d))

DateText(y, m, d) == NumberToString(y) \o <<"-">> \o PadStart2(m) \o <<"-">> \o PadStart2(d)

\* The calendar date k days before a calendar date.
RECURSIVE DaysBefore(_, _)
DaysBefore(d, k) ==
  IF k = 0 THEN d
  ELSE LET y == YearOf(d)
           m == MonthOf(d)
           day == DayOf(d)
           previous ==
             IF day > 1 THEN DateText(y, m, day - 1)
             ELSE IF m > 1 THEN DateText(y, m - 1, DaysInMonth(y, m - 1))
             ELSE DateText(y - 1, 12, 31)
       IN  DaysBefore(previous, k - 1)

\* date a is not later than date b.
NotLater(a, b) ==
  YearOf(a) * 10000 + MonthOf(a) * 100 + DayOf(a)
    <= YearOf(b) * 10000 + MonthOf(b) * 100 + DayOf(b)

\* The calls that were given a date, that have returned a picture, and that
\* have given up after failures only.
DatedCalls == { k \in 1..Len(apCalls) : apCalls[k].options.date # None }
PictureCalls == { k \in 1..Len(apCalls) : apCalls[k].result.kind = "fulfilled" }
ExhaustedCalls ==
  { k \in 1..Len(apCalls) :
      /\ apCalls[k].result.kind = "rejected"
      /\ StartsWith(apCalls[k].result.error, << "U", "n", "a", "b", "l", "e", " ", "t", "o", " ", "f", "e", "t", "c", "h", " ", "N",
       "A", "S", "A", " ", "A", "P", "O", "D" >>) }

\* C13: a call whose date does not match YYYY-MM-DD, or matches it without
\* being a date of the calendar, fails with the invalid-date-format error and
\* makes no fetch attempt.
C13_InvalidDateRejected ==
  \A k \in DatedCalls :
    ~IsCalendarDate(apCalls[k].options.date[1]) =>
      /\ apCalls[k].result = ApRejected(InvalidDateError)
      /\ apCalls[k].fetches = <<>>

\* The calls that passed the validation of the date.
WalkingCalls ==
  { k \in 1..Len(apCalls) : apCalls[k].result # ApRejected(InvalidDateError) }

\* A finite number, given in halves, cut down to a whole number of days and
\* clamped into [0, 30].
ClampedDays(halves) ==
  IF halves < 0 THEN 0 ELSE IF halves > 60 THEN 30 ELSE halves \div 2

\* C14 as stated: the effective maxDaysBack is the given value clamped into
\* [0, 30], and a missing or non-finite value (undefined, NaN, +Infinity,
\* -Infinity) acts as the default 10.
C14_NonFiniteActsAsDefault ==
  \A k \in WalkingCalls :
    LET given == apCalls[k].options.maxDaysBack
    IN  /\ apCalls[k].maxDaysBack \in 0..30
        /\ Len(apCalls[k].fetches) <= apCalls[k].maxDaysBack + 1
        /\ apCalls[k].maxDaysBack =
             IF given.kind = "finite" THEN ClampedDays(given.halves) ELSE 10

\* C14 as amended: the effective maxDaysBack is the given value rounded down
\* to a whole number and clamped into [0, 30]; a missing value (undefined or
\* null) acts as the default 10, and a value that is not finite (NaN,
\* +Infinity, -Infinity) acts as 0; no value raises an error.
C14_ClampedMissingDefaults ==
  \A k \in WalkingCalls :
    LET given == apCalls[k].options.maxDaysBack
    IN  /\ apCalls[k].maxDaysBack \in 0..30
        /\ Len(apCalls[k].fetches) <= apCalls[k].maxDaysBack + 1
        /\ Len(apCalls[k].fetches) >= 1
        /\ apCalls[k].maxDaysBack =
             IF given.kind = "finite" THEN ClampedDays(given.halves)
             ELSE IF given.kind \in {"undefined", "null"} THEN 10
             ELSE 0

\* C14 witness: a call with maxDaysBack NaN has given up after the single
\* attempt on the requested date.
C14_Witness ==
  \E k \in ExhaustedCalls :
    /\ apCalls[k].options.maxDaysBack = NaN
    /\ apCalls[k].maxDaysBack = 0
    /\ Len(apCalls[k].fetches) = 1

\* The date a call was asked for: the date given, or the day of the call.
AskedDates(call) ==
  IF call.options.date # None THEN {call.options.date[1]}
  ELSE { DateText(YearFromDay(t), MonthFromDay(t) + 1, DateFromDay(t)) : t \in ClockDays }

\* C15: the date-walk stops at the first success: when the attempts for the
\* requested date and the next k-1 earlier days have failed and the attempt k
\* days back succeeds (k at most the effective maxDaysBack), the call has
\* returned after exactly k+1 fetch attempts, one per day from the requested
\* date backwards, makes no further fetch, and the requestedDate of its result
\* is the date asked for.
C15_StopsAtFirstSuccess ==
  \A k \in PictureCalls :
    LET c == apCalls[k]
        failed == Len(c.failures)
    IN  /\ c.pc = "done"
        /\ failed <= c.maxDaysBack
        /\ Len(c.fetches) = failed + 1
        /\ \A j \in 1..failed : c.failures[j].date = c.fetches[j]
        /\ IsCalendarDate(c.requestedDate) =>
             \A j \in 1..Len(c.fetches) : c.fetches[j] = DaysBefore(c.requestedDate, j - 1)
        /\ c.result.value.requestedDate \in AskedDates(c)
        /\ c.result.value.requestedDate = c.requestedDate

\* C15 witness: a picture returned on the third attempt, across the start of a
\* month, under the date asked for.
C15_Witness ==
  \E k \in PictureCalls :
    /\ Len(apCalls[k].failures) = 2
    /\ apCalls[k].options.date = Some(<< "2", "0", "2", "6", "-", "0", "3", "-", "0", "1" >>)
    /\ apCalls[k].fetches[3] = << "2", "0", "2", "6", "-", "0", "2", "-", "2", "7" >>
    /\ apCalls[k].result.value.requestedDate = << "2", "0", "2", "6", "-", "0", "3", "-", "0", "1" >>

\* C16: when every attempt fails the call ends with the exhausted-fallback
\* error after exactly (effective maxDaysBack + 1) fetch attempts, the
\* requested date being the first; no call, whatever its outcome, makes more
\* attempts than that.
C16_AttemptsBounded ==
  \A k \in 1..Len(apCalls) :
    LET c == apCalls[k]
    IN  /\ Len(c.fetches) <= c.maxDaysBack + 1
        /\ Len(c.fetches) <= 31
        /\ (c.pc = "done" /\ c.fetches # <<>> /\ Len(c.failures) = Len(c.fetches)) =>
             /\ k \in ExhaustedCalls
             /\ Len(c.fetches) = c.maxDaysBack + 1
        /\ k \in ExhaustedCalls =>
             /\ c.pc = "done"
             /\ Len(c.fetches) = c.maxDaysBack + 1
             /\ Len(c.failures) = c.maxDaysBack + 1
             /\ IsCalendarDate(c.requestedDate) => c.fetches[1] = c.requestedDate

\* C16 witness: a call with maxDaysBack far above 30 has ended with the
\* exhausted-fallback error after 31 attempts, the first on the requested date.
C16_Witness ==
  \E k \in ExhaustedCalls :
    /\ apCalls[k].options.maxDaysBack = Finite(200)
    /\ Len(apCalls[k].fetches) = 31
    /\ apCalls[k].fetches[1] = apCalls[k].requestedDate

\* The text of the exhausted-fallback error for a number of attempts, the date
\* asked for, and the date and reason of one failure.
ExhaustedText(attempts, requestedDate, date, reason) ==
  << "U", "n", "a", "b", "l", "e", " ", "t", "o", " ", "f", "e", "t", "c", "h", " ", "N",
       "A", "S", "A", " ", "A", "P", "O", "D", " ", "a", "f", "t", "e", "r", " ", "c",
       "h", "e", "c", "k", "i", "n", "g", " " >> \o NumberToString(attempts)
    \o << " ", "d", "a", "y", "(", "s", ")", " ", "b", "a", "c", "k", " ", "f", "r", "o", "m",
       " " >> \o requestedDate
    \o << ".", " ", "L", "a", "s", "t", " ", "e", "r", "r", "o", "r", " ", "(" >> \o date \o <<")", ":", " ">> \o reason

\* C17: the exhausted-fallback error reports the number of attempts made
\* (effective maxDaysBack + 1) and the date and the reason of the most recent
\* failed attempt (the requested date minus maxDaysBack days); the reasons of
\* the earlier failures, where they differ from it, do not appear in the error.
C17_LastFailureOnly ==
  \A k \in ExhaustedCalls :
    LET c == apCalls[k]
        n == c.maxDaysBack + 1
        last == c.failures[n]
    IN  /\ Len(c.failures) = n
        /\ last.date = c.fetches[n]
        /\ IsCalendarDate(c.requestedDate) => last.date = DaysBefore(c.requestedDate, c.maxDaysBack)
        /\ c.result.error = ExhaustedText(n, c.requestedDate, last.date, last.reason)
        /\ \A j \in 1..(n - 1) :
             c.failures[j].reason # last.reason => ~Contains(c.result.error, c.failures[j].reason)

\* C17 witness: a call has given up after at least three failures whose first
\* reason differs from the last one.
C17_Witness ==
  \E k \in ExhaustedCalls :
    /\ Len(apCalls[k].failures) >= 3
    /\ apCalls[k].failures[1].reason # apCalls[k].failures[Len(apCalls[k].failures)].reason
    /\ Contains(apCalls[k].result.error, apCalls[k].failures[Len(apCalls[k].failures)].reason)

\* C18: on every successful result, whatever body the API returned, dateUsed
\* is the date queried by the attempt that succeeded, and so it is never later
\* than requestedDate.
C18_DateUsedNotLater ==
  \A k \in PictureCalls :
    LET c == apCalls[k]
    IN  /\ c.result.value.dateUsed = c.fetches[Len(c.fetches)]
        /\ NotLater(c.result.value.dateUsed, c.result.value.requestedDate)

\* The k-th line of a text whose lines are separated by LF.
LineOf(text, k) ==
  LET breaks == { i \in 1..Len(text) : text[i] = LF }
      Break(n) ==
        IF n = 0 THEN 0
        ELSE IF n > Cardinality(breaks) THEN Len(text) + 1
        ELSE CHOOSE p \in breaks : Cardinality({ q \in breaks : q <= p }) = n
  IN  SubSeq(text, Break(k - 1) + 1, Break(k) - 1)

\* The characters of a text that are not whitespace.
Inked(text) == SelectSeq(text, LAMBDA c : c \notin {" ", Tab, CR, LF})

\* The explanation as the plain-text block of a result shows it.
ShownExplanation(picture) == LineOf(picture.spaceEditionBlock, 4)

\* C19 as stated: in the plain-text block an explanation longer than 420
\* characters is cut at character 420 (the text up to that character is kept),
\* trailing whitespace is trimmed and one ellipsis is appended; an explanation
\* of at most 420 characters appears whole, without ellipsis.
C19_LongExplanationCut ==
  \A k \in PictureCalls :
    LET explanation == apCalls[k].result.value.explanation
        shown == ShownExplanation(apCalls[k].result.value)
        Cut(n) == TrimEnd(SubSeq(explanation, 1, n)) \o <<Ellipsis>>
    IN  IF Len(explanation) > 420
          THEN shown = Cut(420) \/ shown = Cut(419)
          ELSE /\ Ellipsis \notin { shown[i] : i \in 1..Len(shown) }
               /\ Inked(shown) = Inked(explanation)

\* A text with every run of whitespace collapsed to one space and no
\* whitespace at its ends: its words, joined by single spaces.
Collapsed(text) ==
  LET n == Len(text)
      Blank(i) == i < 1 \/ i > n \/ text[i] \in {" ", Tab, CR, LF}
      starts == { i \in 1..n : ~Blank(i) /\ Blank(i - 1) }
      ends == { i \in 1..n : ~Blank(i) /\ Blank(i + 1) }
      Nth(S, k) == CHOOSE p \in S : Cardinality({ q \in S : q <= p }) = k
      Word(k) == SubSeq(text, Nth(starts, k), Nth(ends, k))
  IN  Concat([k \in 1..Cardinality(starts) |-> IF k = 1 THEN Word(k) ELSE <<" ">> \o Word(k)],
             1, Cardinality(starts))

\* C19 as amended: the block shows the explanation with every run of
\* whitespace collapsed to one space and the ends trimmed; when that text is
\* longer than 420 characters it is cut to its first 419 characters, trailing
\* whitespace is trimmed and one ellipsis is appended, at most 420 characters
\* in all; when it has at most 420 characters it appears whole, without
\* ellipsis.
C19_CollapsedCutTo420 ==
  \A k \in PictureCalls :
    LET collapsed == Collapsed(apCalls[k].result.value.explanation)
        shown == ShownExplanation(apCalls[k].result.value)
    IN  /\ Len(shown) <= 420
        /\ IF Len(collapsed) > 420
             THEN shown = (IF collapsed[419] = " " THEN SubSeq(collapsed, 1, 418)
                           ELSE SubSeq(collapsed, 1, 419)) \o <<Ellipsis>>
             ELSE shown = collapsed

\* C19 witness: an explanation longer than 420 characters, with a space as its
\* 419th character, is shown as 418 characters and the ellipsis.
C19_Witness ==
  \E k \in PictureCalls :
    LET explanation == apCalls[k].result.value.explanation
        shown == ShownExplanation(apCalls[k].result.value)
    IN  /\ Len(explanation) > 420
        /\ explanation[419] = " "
        /\ Len(shown) = 419
        /\ shown[419] = Ellipsis

\* C20: every successful result holds, besides the plain-text
\* spaceEditionBlock, an HTML block spaceEditionBlockHtml that includes the
\* banner "Did you know? Space Edition!" and shows the image with an <img>
\* element.
C20_HtmlBlock ==
  \A k \in PictureCalls :
    LET picture == apCalls[k].result.value
    IN  /\ Contains(picture.spaceEditionBlock, Banner)
        /\ "spaceEditionBlockHtml" \in DOMAIN picture
        /\ Contains(picture.spaceEditionBlockHtml, Banner)
        /\ Contains(picture.spaceEditionBlockHtml, <<"<", "i", "m", "g">>)


(***************************************************************************)
(* Properties of the reply guardrail (checked under SpecGuard).            *)
(***************************************************************************)
\* The marker stands at the 0-based position i of the reply body.
MarkerAt(body, i) ==
  /\ i + Len(Marker) <= Len(body)
  /\ \A j \in 1..Len(Marker) : body[i + j] = Marker[j]

\* The positions of the marker in the reply body.
MarkerPlaces(body) == { i \in 0..Len(body) : MarkerAt(body, i) }

\* The text before the first marker of a reply body that holds one.
BeforeMarker(body) ==
  LET first == CHOOSE i \in MarkerPlaces(body) : \A j \in MarkerPlaces(body) : i <= j
  IN  SubSeq(body, 1, first)

\* The characters of a text are all whitespace.
Blank(text) == \A i \in 1..Len(text) : text[i] \in {" ", Tab, CR, LF}

\* C21: in plain mode the guardrail returns when the marker does not occur in
\* replyBody, and otherwise throws exactly when the text before the first
\* occurrence of the marker is all whitespace, whatever follows that occurrence.
C21_PlainGuardrail ==
  (guard.pc \in {"returned", "threw"} /\ guard.format = "plain") =>
    /\ MarkerPlaces(guard.replyBody) = {} => guard.pc = "returned"
    /\ guard.pc = "threw" <=>
         (MarkerPlaces(guard.replyBody) # {} /\ Blank(BeforeMarker(guard.replyBody)))
    /\ guard.pc = "threw" => guard.error = Some(OnlySpaceEditionPlain)
    /\ guard.pc = "returned" => guard.error = None

\* C21 witness: a plain reply body of a line feed, the marker and the marker
\* again has been refused.
C21_Witness ==
  /\ guard.pc = "threw"
  /\ guard.format = "plain"
  /\ guard.replyBody = <<LF>> \o Marker \o Marker

\* The text of a prefix outside its tags, read from left to right: a "<" with
\* a ">" somewhere after it opens a tag that ends at the first such ">".
RECURSIVE OutsideTags(_, _)
OutsideTags(prefix, pos) ==
  IF pos > Len(prefix) THEN <<>>
  ELSE LET closers == { e \in (pos + 1)..Len(prefix) : prefix[e] = ">" }
       IN  IF prefix[pos] = "<" /\ closers # {}
             THEN OutsideTags(prefix, (CHOOSE e \in closers : \A f \in closers : e <= f) + 1)
             ELSE <<prefix[pos]>> \o OutsideTags(prefix, pos + 1)

\* C22: in HTML mode the guardrail throws exactly when the marker occurs and
\* the text before its first occurrence, with every tag-like substring removed,
\* holds nothing but whitespace: a prefix of tags and whitespace is refused and
\* a prefix with any other character outside its tags is let through.
C22_HtmlGuardrail ==
  (guard.pc \in {"returned", "threw"} /\ guard.format = "html") =>
    /\ guard.pc = "threw" <=>
         /\ MarkerPlaces(guard.replyBody) # {}
         /\ Blank(OutsideTags(BeforeMarker(guard.replyBody), 1))
    /\ guard.pc = "threw" => guard.error = Some(OnlySpaceEditionHtml)
    /\ guard.pc = "returned" => guard.error = None

\* C22 witness: an HTML reply body whose marker follows a tag and a space only
\* has been refused.
C22_Witness ==
  /\ guard.pc = "threw"
  /\ guard.format = "html"
  /\ guard.replyBody = <<"<", "p", ">", " ">> \o Marker


(***************************************************************************)
(* Properties of the call handler and the tool list (checked under         *)
(* SpecServer and SpecTool).                                               *)
(***************************************************************************)
ReturnedToolCalls == { t \in 1..Len(toolCalls) : toolCalls[t].pc = "returned" }

ListedNames == { server.allTools[i] : i \in 1..Len(server.allTools) }

\* A response is the error payload of a message, flagged isError.
IsErrorPayload(response, message) ==
  /\ "isError" \in DOMAIN response
  /\ response.isError = TRUE
  /\ response.content = <<[type |-> "text", data |-> [error |-> message]]>>

\* A response is an error payload of some message, flagged isError.
IsSomeErrorPayload(response) ==
  /\ "isError" \in DOMAIN response
  /\ response.isError = TRUE
  /\ Len(response.content) = 1
  /\ response.content[1].type = "text"
  /\ DOMAIN response.content[1].data = {"error"}

\* What the service behind a listed tool has settled with, for a returned call.
SettledFor(call) ==
  IF call.name = "get_unread_emails" THEN guResult
  ELSE IF call.name = "create_draft_reply" THEN
    IF call.cd = 0 THEN Rejected(RequiredError) ELSE cdCalls[call.cd].result
  ELSE apCalls[call.ap].result

\* C23: every tool call that has ended has a response; a call of a name that
\* is no tool gets an error payload, flagged isError; a failure of the handler
\* gets the error payload of its message, flagged isError; a result is
\* returned without the flag.
C23_FailuresBecomeErrorPayloads ==
  \A t \in ReturnedToolCalls :
    LET call == toolCalls[t]
    IN  /\ Len(call.response.content) = 1
        /\ call.name \notin ListedNames => IsSomeErrorPayload(call.response)
        /\ call.name \in ListedNames =>
             /\ SettledFor(call).kind = "rejected" =>
                  IsErrorPayload(call.response, SettledFor(call).error)
             /\ SettledFor(call).kind = "fulfilled" =>
                  /\ "isError" \notin DOMAIN call.response
                  /\ call.name # "create_draft_reply" =>
                       call.response.content[1].data = SettledFor(call).value

\* The arguments lack emailId or replyBody, or hold an empty one.
LacksRequired(args) ==
  \/ ~args.defined
  \/ args.emailId = <<>>
  \/ args.replyBody = <<>>
  \/ args.emailId = <<EmptyId>>
  \/ args.replyBody = << <<>> >>

C25_ListedIffCallable ==
  /\ server.listed # None => server.listed[1] = server.allTools
  /\ server.flag = None => "get_space_picture_of_the_day" \in ListedNames
  /\ server.flag = Some(<< "f", "a", "l", "s", "e" >>) =>
       "get_space_picture_of_the_day" \notin ListedNames
  /\ \A t \in 1..Len(toolCalls) :
       LET call == toolCalls[t]
       IN  /\ call.name \in ListedNames <=> call.handler # "undefined"
           /\ call.handler = "undefined" =>
                /\ call.pc = "returned"
                /\ IsErrorPayload(call.response, UnknownTool(call.name))
           /\ (call.name \in ListedNames /\ call.name \notin { GmailTools[i] : i \in 1..2 }) =>
                call.ap # 0


(***************************************************************************)
(* Properties of the attempts of the date-walk (checked under SpecApod).   *)
(***************************************************************************)
\* C26: the attempts of a date-walk query the requested date, the day before
\* it, the day before that and so on by the calendar, and an attempt is made
\* only when every attempt before it has ended in a failure: there is never
\* more than one attempt without outcome.
C26_WalkByCalendarDays ==
  \A k \in 1..Len(apCalls) :
    LET c == apCalls[k]
    IN  /\ \A j \in 1..Len(c.fetches) : c.fetches[j] = DaysBefore(c.requestedDate, j - 1)
        /\ Len(c.fetches) = Len(c.responses) + (IF c.pc = "fetching" THEN 1 ELSE 0)
        /\ Len(c.failures) \in {Len(c.fetches) - 1, Len(c.fetches)} \cap Nat
        /\ \A j \in 1..Len(c.failures) : c.failures[j].date = c.fetches[j]

\* The answer to a request is usable: a 2xx status and a body with a non-empty
\* date, title, explanation and url.
Usable(response) ==
  /\ response.kind = "response"
  /\ response.status \in 200..299
  /\ response.json.date # <<>>
  /\ response.json.title # <<>>
  /\ response.json.explanation # <<>>
  /\ response.json.url # <<>>

\* C27: an attempt succeeds, and ends the walk with a result, exactly when its
\* answer is usable; any other answer (a status outside 2xx, a body lacking a
\* field, no response, a body that is no JSON) is recorded as a failure of the
\* queried date, after which the walk goes on with the day before or, the
\* attempts used up, ends with the exhausted-fallback error; and the mediaUrl
\* of a result is the non-empty url of the answer.
C27_SuccessIffUsable ==
  \A k \in 1..Len(apCalls) :
    LET c == apCalls[k]
        n == Len(c.responses)
    IN  /\ \A j \in 1..n :
             /\ Usable(c.responses[j]) <=> (j = n /\ c.result.kind = "fulfilled")
             /\ ~Usable(c.responses[j]) =>
                  /\ j <= Len(c.failures)
                  /\ c.failures[j].date = c.fetches[j]
                  /\ \/ j < Len(c.fetches) /\ c.fetches[j + 1] = DaysBefore(c.fetches[j], 1)
                     \/ /\ j = c.maxDaysBack + 1
                        /\ c.pc = "done"
                        /\ c.result = ApRejected(ExhaustedError(c.failures, c.requestedDate))
        /\ c.result.kind = "fulfilled" =>
             /\ n >= 1
             /\ Len(c.failures) = n - 1
             /\ c.result.value.mediaUrl # <<>>
             /\ c.result.value.mediaUrl = c.responses[n].json.url
        /\ (c.result.kind = "rejected" /\ n > 0) => Len(c.failures) = n /\ n = c.maxDaysBack + 1

\* C27 witness: a walk has gone past a status 300 with a complete body and has
\* ended with a result on an answer of a 2xx status other than 200.
C27_Witness ==
  \E k \in 1..Len(apCalls) :
    LET c == apCalls[k]
        n == Len(c.responses)
    IN  /\ c.result.kind = "fulfilled"
        /\ c.responses[n].status # 200
        /\ \E j \in 1..(n - 1) : c.responses[j].status = 300 /\ c.responses[j].json.url # <<>>


(***************************************************************************)
(* Properties of the refresh-token save (checked under SpecAuth).          *)
(***************************************************************************)
\* The lines of a text, read line feed by line feed.
RECURSIVE TextLines(_)
TextLines(text) ==
  LET feeds == { i \in 1..Len(text) : text[i] = LF }
  IN  IF feeds = {} THEN <<text>>
      ELSE LET first == CHOOSE i \in feeds : \A j \in feeds : i <= j
           IN  <<SubSeq(text, 1, first - 1)>> \o TextLines(SubSeq(text, first + 1, Len(text)))

\* The positions of the lines that begin with the key.
KeyLines(lines) ==
  { i \in 1..Len(lines) :
      Len(lines[i]) >= Len(KeyPrefix) /\ SubSeq(lines[i], 1, Len(KeyPrefix)) = KeyPrefix }

\* The lines before and after are the same but for the key lines before, which
\* hold the new token after, and, when there was none, one key line more at
\* the end.
SameButKeyLines(old, new, keyLine) ==
  /\ \A i \in 1..Len(old) : i <= Len(new) /\ new[i] = (IF i \in KeyLines(old) THEN keyLine ELSE old[i])
  /\ Len(new) = Len(old) + (IF KeyLines(old) = {} THEN 1 ELSE 0)
  /\ KeyLines(old) = {} => new[Len(new)] = keyLine

\* C28: after the save exactly one line of the file holds the key, with the new
\* token: it replaces the line that held the key, or is added at the end when
\* there was none, and every other line is as it was, in the same place.
C28_SingleLineUpsert ==
  auth.pc = "saved" =>
    LET old == TextLines(auth.before)
        new == TextLines(auth.content)
    IN  /\ Cardinality(KeyLines(new)) = 1
        /\ SameButKeyLines(old, new, KeyPrefix \o auth.token)

\* C28, amended: after the save every line that held the key holds it with the
\* new token, one key line is added at the end when no line held the key, the
\* file has as many key lines as before (and one when it had none), and every
\* other line is as it was, in the same place.
C28_EveryKeyLineUpserted ==
  auth.pc = "saved" =>
    LET old == TextLines(auth.before)
        new == TextLines(auth.content)
    IN  /\ auth.exists
        /\ Cardinality(KeyLines(new)) =
             (IF KeyLines(old) = {} THEN 1 ELSE Cardinality(KeyLines(old)))
        /\ \A i \in KeyLines(new) : new[i] = KeyPrefix \o auth.token
        /\ SameButKeyLines(old, new, KeyPrefix \o auth.token)

\* C28 witness: the token has been saved to a file that held the key on two
\* lines and another key on a third.
C28_Witness ==
  /\ auth.pc = "saved"
  /\ Cardinality(KeyLines(TextLines(auth.before))) = 2
  /\ Len(TextLines(auth.before)) = 3
  /\ \E i \in 1..3 : TextLines(auth.before)[i] = << "A", "=", "1" >>


(***************************************************************************)
(* Properties of interleaved invocations (checked under SpecInterleave).   *)
(***************************************************************************)
\* getSpacePictureOfTheDay run alone from the top of its loop, over the
\* answers its requests got: the dates it asks, the failures it records and
\* what it returns (pending while the next answer is outstanding).
RECURSIVE WalkFrom(_, _, _, _, _)
WalkFrom(requestedDate, maxDaysBack, answers, i, run) ==
  IF i > maxDaysBack
    THEN [ fetches |-> run.fetches, failures |-> run.failures,
           result |-> ApRejected(ExhaustedError(run.failures, requestedDate)) ]
    ELSE LET dateToTry == FormatDateUTC(run.current)
             fetches == Append(run.fetches, dateToTry)
         IN  IF i + 1 > Len(answers)
               THEN [ fetches |-> fetches, failures |-> run.failures, result |-> ApPending ]
             ELSE IF FetchApod(answers[i + 1]).ok
               THEN [ fetches |-> fetches, failures |-> run.failures,
                      result |-> ApFulfilled(ToSpacePictureOfTheDay(
                                   FetchApod(answers[i + 1]).apod, requestedDate)) ]
             ELSE WalkFrom(requestedDate, maxDaysBack, answers, i + 1,
                    [ fetches |-> fetches,
                      failures |-> Append(run.failures,
                                     [ date |-> dateToTry,
                                       reason |-> FetchApod(answers[i + 1]).reason ]),
                      current |-> AddDaysUTC(run.current, -1) ])

WalkAlone(options, requestedDate, answers) ==
  IF ~IsValidDateFormat(requestedDate)
    THEN [ fetches |-> <<>>, failures |-> <<>>, result |-> ApRejected(InvalidDateError) ]
    ELSE WalkFrom(requestedDate, EffectiveMaxDaysBack(options.maxDaysBack), answers, 0,
                  [ fetches |-> <<>>, failures |-> <<>>,
                    current |-> ParseDateUTC(requestedDate)[1] ])

\* createDraftReply run alone over the outcomes of its two requests: the
\* request it submits and what it returns.
DraftAlone(call) ==
  IF call.fetched = "pending"
    THEN [ gets |-> 1, creates |-> 0, request |-> NoRequest, kind |-> "pending", error |-> "" ]
  ELSE IF call.fetched = "rejected"
    THEN [ gets |-> 1, creates |-> 0, request |-> NoRequest,
           kind |-> "rejected", error |-> call.providerError ]
  ELSE LET msg == mailbox[call.emailId]
           request == [ threadId |-> msg.threadId,
                        raw |-> EncodedEmail(RawEmail(EmailLines(msg, call.replyBody))) ]
       IN  [ gets |-> 1, creates |-> 1, request |-> request,
             kind |-> IF call.created = "pending" THEN "pending" ELSE call.created,
             error |-> IF call.created = "rejected" THEN call.providerError ELSE "" ]

\* getUnreadEmails run alone over the outcomes of its requests.
UnreadAlone ==
  IF guPc \in {"idle", "listing"} THEN Pending
  ELSE IF guList.status = "rejected" THEN Rejected(guOrder[1].error)
  ELSE IF Listed(guList).messages = <<>> THEN Fulfilled(<<>>)
  ELSE IF FirstRejection # "" THEN Rejected(FirstRejection)
  ELSE IF \A i \in 1..Len(guFetch) : guFetch[i] = "fulfilled"
    THEN Fulfilled([ i \in 1..Len(guMessages) |-> Summary(mailbox[guMessages[i]]) ])
  ELSE Pending

\* C29: invocations share no mutable state: interleaved at their await points
\* with other invocations, every invocation asks the provider (or the API) for
\* the same things in the same order, and returns the same result, as it
\* would when run alone over the answers it got.
C29_SameAsAlone ==
  /\ \A k \in 1..Len(apCalls) :
       LET alone == WalkAlone(apCalls[k].options, apCalls[k].requestedDate,
                              apCalls[k].responses)
       IN  /\ apCalls[k].fetches = alone.fetches
           /\ apCalls[k].failures = alone.failures
           /\ apCalls[k].result = alone.result
  /\ \A k \in 1..Len(cdCalls) :
       LET alone == DraftAlone(cdCalls[k])
       IN  /\ cdCalls[k].gets = alone.gets
           /\ cdCalls[k].creates = alone.creates
           /\ cdCalls[k].request = alone.request
           /\ cdCalls[k].result.kind = alone.kind
           /\ cdCalls[k].result.error = alone.error
           /\ cdCalls[k].result.kind = "fulfilled" =>
                /\ cdCalls[k].result.value.threadId = alone.request.threadId
                /\ \E d \in 1..Len(drafts) :
                     /\ drafts[d].id = cdCalls[k].result.value.draftId
                     /\ drafts[d].threadId = alone.request.threadId
                     /\ drafts[d].raw = alone.request.raw
  /\ guResult = UnreadAlone
  /\ guPc \notin {"idle", "listing"} /\ guList.status = "fulfilled" =>
       Len(guFetch) = Len(Listed(guList).messages)

\* C29 witness: a date walk that began after another one has returned a
\* picture on a date of its own while the first walk, one failure in, waits
\* for an answer, and a createDraftReply waits for its draft.
C29_Witness ==
  /\ Len(apCalls) = 2
  /\ apCalls[1].pc = "fetching"
  /\ Len(apCalls[1].failures) >= 1
  /\ apCalls[2].result.kind = "fulfilled"
  /\ Len(apCalls[2].failures) >= 1
  /\ apCalls[1].requestedDate # apCalls[2].requestedDate
  /\ Len(cdCalls) = 1
  /\ cdCalls[1].pc = "creating"

=============================================================================
